---- MODULE Spec2Model ----
(***************************************************************************)
(* State-machine model of the Lightning web components of the repository:  *)
(* saStatusUpdate (status workflow widget), cpeProvisioning (provisioning  *)
(* wizard), predictiveMaintenance (asset health dashboard),                *)
(* buildingAssetMap (digital-twin map) and orderProgressMobile (order      *)
(* progress view).                                                         *)
(*                                                                         *)
(* One component instance is mounted per behaviour (variable component);   *)
(* the components share no runtime.  A field that two classes declare      *)
(* under the same name (isProcessing, workPlanCreated, recordId) is one    *)
(* variable: it is the field of the mounted instance.                      *)
(*                                                                         *)
(* Every handler is one action.  An async handler runs synchronously up to *)
(* its first await (one action) and is resumed by the settlement of the    *)
(* awaited promise (one action per outcome); the invocations that are      *)
(* suspended at an await are the entries of tasks.                         *)
(***************************************************************************)
EXTENDS Integers, Sequences, FiniteSets, Bags, TLC

VARIABLES
    component,              \* class of the mounted instance
    recordId,               \* @api recordId ("" when the page supplies none)
    tasks,                  \* bag of the suspended async invocations
    io,                     \* remote calls, events and console output of the latest step
    \* ---- saStatusUpdate
    statusValue,            \* serviceAppointment.Status.value ("" when missing)
    isProcessing,           \* also a field of cpeProvisioning
    showBlockModal,
    blockReason,
    blockNotes,
    dependentAppointments,
    showDependencyWarning,
    \* ---- cpeProvisioning
    wired,                  \* data of the two GraphQL wires (account, work order, asset)
    scanner,                \* barcodeScanner of connectedCallback: "available" or "unavailable"
    currentStep,
    adaptStatus,
    provisioningComplete,
    manualSerialNumber,
    manualSerialEntered,
    isChangingCpe,
    signalStrength,
    opticalPower,
    connectionSpeed,
    provisioningLog,
    logging,                \* whether the behaviour records provisioningLog
    \* ---- predictiveMaintenance
    data,
    workOrders,
    selectedWorkOrderId,
    isLoading,              \* also a field of orderProgressMobile
    isCreating,
    showWorkOrderModal,
    workPlanCreated,        \* also a field of buildingAssetMap
    createdWorkPlanId,
    wiredDataResult,
    \* ---- buildingAssetMap
    gisLayers,
    assetsByFloor,
    selectedAsset,          \* <<>> for null, <<asset>> otherwise
    showAssetDetail,
    isCreatingWorkPlan,
    \* ---- orderProgressMobile
    expandedStages,
    workOrderData,          \* _workOrderData: "undefined" or the node of the work order
    \* ---- threshold evaluation of one reading by both components
    reading,                \* the reading: value, minThreshold, maxThreshold
    processedAttr,          \* <<>> or <<result of the map's processAttribute>>
    telemetryReading        \* <<>> or <<entry of the dashboard's telemetryReadings>>

saFields == <<statusValue, showBlockModal, blockReason, blockNotes,
              dependentAppointments, showDependencyWarning>>

cpeFields == <<wired, scanner, currentStep, adaptStatus, provisioningComplete,
               manualSerialNumber, manualSerialEntered, isChangingCpe,
               signalStrength, opticalPower, connectionSpeed, provisioningLog, logging>>

pmFields == <<data, workOrders, selectedWorkOrderId, isLoading, isCreating,
              showWorkOrderModal, createdWorkPlanId, wiredDataResult>>

mapFields == <<gisLayers, assetsByFloor, selectedAsset, showAssetDetail, isCreatingWorkPlan>>

opmFields == <<expandedStages, workOrderData>>

thresholdFields == <<reading, processedAttr, telemetryReading>>

vars == <<component, recordId, tasks, io, isProcessing, workPlanCreated,
          saFields, cpeFields, pmFields, mapFields, opmFields, thresholdFields>>

\* what a handler of one component cannot touch: the instance's identity and
\* the fields of the other classes
saFrame == <<component, recordId, workPlanCreated, cpeFields, pmFields, mapFields,
             opmFields, thresholdFields>>

cpeFrame == <<component, recordId, workPlanCreated, wired, scanner, logging,
              saFields, pmFields, mapFields, opmFields, thresholdFields>>

pmFrame == <<component, recordId, isProcessing, saFields, cpeFields, mapFields,
             opmFields, thresholdFields>>

mapFrame == <<component, recordId, isProcessing, assetsByFloor, saFields, cpeFields,
              pmFields, opmFields, thresholdFields>>

thresholdFrame == <<component, recordId, tasks, isProcessing, workPlanCreated,
                    saFields, cpeFields, pmFields, mapFields, opmFields>>

opmFrame == <<component, recordId, tasks, isProcessing, workPlanCreated, data, workOrders,
              selectedWorkOrderId, isCreating, showWorkOrderModal, createdWorkPlanId,
              wiredDataResult, saFields, cpeFields, mapFields, thresholdFields>>

(***************************************************************************)
(* Bounds                                                                  *)
(***************************************************************************)
MaxTasks == 2               \* async invocations suspended at the same time

(***************************************************************************)
(* Suspended invocations and the input/output of a step                    *)
(***************************************************************************)
Task(op, pc, arg, from) == [op |-> op, pc |-> pc, arg |-> arg, from |-> from, rso |-> 0]

Pending == BagToSet(tasks)

CanSuspend == BagCardinality(tasks) < MaxTasks

Suspend(task) == tasks' = tasks (+) SetToBag({task})

Resume(t, task) == tasks' = (tasks (-) SetToBag({t})) (+) SetToBag({task})

Finish(t) == tasks' = tasks (-) SetToBag({t})

NoIO == [settled |-> <<>>, calls |-> <<>>, events |-> <<>>, console |-> <<>>]

Settled(op, call, ok) == [op |-> op, call |-> call, ok |-> ok]

ShowToastEvent(title, variant) == [kind |-> "ShowToastEvent", title |-> title, variant |-> variant]

CloseActionScreenEvent == [kind |-> "CloseActionScreenEvent", title |-> "", variant |-> ""]

(***************************************************************************)
(* saStatusUpdate                                                          *)
(***************************************************************************)
\* STATUS_CONFIG with a transition that the table does not have
STATUS_CONFIG_TravelCompletes ==
    [None |-> [next |-> <<"Scheduled">>, icon |-> "utility:clock"],
     Scheduled |-> [next |-> <<"Dispatched", "Travel">>, icon |-> "utility:event"],
     Dispatched |-> [next |-> <<"Travel", "In Progress">>, icon |-> "utility:routing_offline"],
     Travel |-> [next |-> <<"In Progress", "Completed">>, icon |-> "utility:travel_and_places"]]
    @@ ("In Progress" :> [next |-> <<"Completed", "Cannot Complete">>, icon |-> "utility:activity"])
    @@ [Completed |-> [next |-> <<>>, icon |-> "utility:check"],
        Canceled |-> [next |-> <<>>, icon |-> "utility:ban"]]
    @@ ("Cannot Complete" :> [next |-> <<>>, icon |-> "utility:close"])

STATUS_CONFIG ==
    [None |-> [next |-> <<"Scheduled">>, icon |-> "utility:clock"],
     Scheduled |-> [next |-> <<"Dispatched", "Travel">>, icon |-> "utility:event"],
     Dispatched |-> [next |-> <<"Travel", "In Progress">>, icon |-> "utility:routing_offline"],
     Travel |-> [next |-> <<"In Progress">>, icon |-> "utility:travel_and_places"]]
    @@ ("In Progress" :> [next |-> <<"Completed", "Cannot Complete">>, icon |-> "utility:activity"])
    @@ [Completed |-> [next |-> <<>>, icon |-> "utility:check"],
        Canceled |-> [next |-> <<>>, icon |-> "utility:ban"]]
    @@ ("Cannot Complete" :> [next |-> <<>>, icon |-> "utility:close"])

\* the values of two of the eight options of BLOCK_REASONS; the handlers never
\* tell one reason from another
BLOCK_REASONS == {"Customer Not Available", "Other"}

currentStatus == IF statusValue = "" THEN "None" ELSE statusValue

statusConfig ==
    IF currentStatus \in DOMAIN STATUS_CONFIG
    THEN STATUS_CONFIG[currentStatus]
    ELSE STATUS_CONFIG["None"]

nextStatusOptions ==
    [i \in 1..Len(statusConfig.next) |->
        LET status == statusConfig.next[i] IN
        [label |-> status,
         value |-> status,
         variant |-> IF status = "Completed" THEN "success" ELSE "neutral",
         icon |-> IF status \in DOMAIN STATUS_CONFIG
                  THEN STATUS_CONFIG[status].icon ELSE "utility:forward"]]

canUpdateStatus == Len(statusConfig.next) > 0

showBlockButton ==
    /\ currentStatus # "Cannot Complete"
    /\ currentStatus # "Completed"
    /\ currentStatus # "Canceled"

\* updateAppointmentStatus up to "await updateRecord"
updateAppointmentStatus(newStatus) ==
    /\ isProcessing' = TRUE
    /\ Suspend(Task("updateAppointmentStatus", "updateRecord", newStatus, currentStatus))
    /\ io' = [NoIO EXCEPT !.calls = <<[call |-> "updateRecord", status |-> newStatus]>>]
    /\ UNCHANGED <<saFrame, saFields>>

\* handleStatusUpdate with buttons for every status, whatever the current one
handleStatusUpdate_AnyStatus ==
    /\ component = "saStatusUpdate"
    /\ CanSuspend
    /\ \E status \in DOMAIN STATUS_CONFIG : updateAppointmentStatus(status)

\* a next-status button carries, in data-status, a value of nextStatusOptions
handleStatusUpdate ==
    /\ component = "saStatusUpdate"
    /\ CanSuspend
    /\ \E i \in DOMAIN nextStatusOptions :
          updateAppointmentStatus(nextStatusOptions[i].value)

\* updateRecord resolved: the wired record shows the new status
updateAppointmentStatus_try(t) ==
    /\ t.op = "updateAppointmentStatus"
    /\ t.pc = "updateRecord"
    /\ statusValue' = t.arg
    /\ io' = [NoIO EXCEPT
                !.settled = <<Settled("updateAppointmentStatus", "updateRecord", TRUE)>>,
                !.events = <<ShowToastEvent("Status Updated", "success")>>]
    /\ isProcessing' = FALSE
    /\ Finish(t)
    /\ UNCHANGED <<saFrame, showBlockModal, blockReason, blockNotes,
                   dependentAppointments, showDependencyWarning>>

\* updateAppointmentStatus with a catch block that only logs
updateAppointmentStatus_catch_Silent(t) ==
    /\ t.op = "updateAppointmentStatus"
    /\ t.pc = "updateRecord"
    /\ io' = [NoIO EXCEPT
                !.settled = <<Settled("updateAppointmentStatus", "updateRecord", FALSE)>>,
                !.console = <<"error">>]
    /\ isProcessing' = FALSE
    /\ Finish(t)
    /\ UNCHANGED <<saFrame, saFields>>

updateAppointmentStatus_catch(t) ==
    /\ t.op = "updateAppointmentStatus"
    /\ t.pc = "updateRecord"
    /\ io' = [NoIO EXCEPT
                !.settled = <<Settled("updateAppointmentStatus", "updateRecord", FALSE)>>,
                !.events = <<ShowToastEvent("Error", "error")>>]
    /\ isProcessing' = FALSE
    /\ Finish(t)
    /\ UNCHANGED <<saFrame, saFields>>

\* handleBlockClick: the block button is rendered under showBlockButton
handleBlockClick ==
    /\ component = "saStatusUpdate"
    /\ showBlockButton
    /\ showBlockModal' = TRUE
    /\ CanSuspend
    /\ Suspend(Task("loadDependentAppointments", "getAppointmentChain", "", ""))
    /\ io' = [NoIO EXCEPT !.calls = <<[call |-> "getAppointmentChain"]>>]
    /\ UNCHANGED <<saFrame, isProcessing, statusValue, blockReason, blockNotes,
                   dependentAppointments, showDependencyWarning>>

handleCloseBlockModal ==
    /\ showBlockModal' = FALSE
    /\ blockReason' = ""
    /\ blockNotes' = ""
    /\ dependentAppointments' = <<>>
    /\ showDependencyWarning' = FALSE

handleCloseBlockModalClick ==
    /\ component = "saStatusUpdate"
    /\ handleCloseBlockModal
    /\ io' = NoIO
    /\ UNCHANGED <<saFrame, tasks, isProcessing, statusValue>>

handleBlockReasonChange ==
    /\ component = "saStatusUpdate"
    /\ \E value \in BLOCK_REASONS : blockReason' = value
    /\ io' = NoIO
    /\ UNCHANGED <<saFrame, tasks, isProcessing, statusValue, showBlockModal,
                   blockNotes, dependentAppointments, showDependencyWarning>>

BlockNotes == {"", "gate locked"}

handleBlockNotesChange ==
    /\ component = "saStatusUpdate"
    /\ \E value \in BlockNotes : blockNotes' = value
    /\ io' = NoIO
    /\ UNCHANGED <<saFrame, tasks, isProcessing, statusValue, showBlockModal,
                   blockReason, dependentAppointments, showDependencyWarning>>

\* results of getAppointmentChain: null, an empty chain, a chain of related appointments
ChainData == {"null", "empty", "chain"}

ChainOf(chainData) == IF chainData = "chain" THEN <<"SA-0002", "SA-0003">> ELSE <<>>

loadDependentAppointments_try(t) ==
    /\ t.op = "loadDependentAppointments"
    /\ \E chainData \in ChainData :
          IF chainData # "null" /\ Len(ChainOf(chainData)) > 0
          THEN /\ dependentAppointments' = ChainOf(chainData)
               /\ showDependencyWarning' = TRUE
          ELSE UNCHANGED <<dependentAppointments, showDependencyWarning>>
    /\ io' = [NoIO EXCEPT
                !.settled = <<Settled("loadDependentAppointments", "getAppointmentChain", TRUE)>>]
    /\ Finish(t)
    /\ UNCHANGED <<saFrame, isProcessing, statusValue, showBlockModal,
                   blockReason, blockNotes>>

loadDependentAppointments_catch(t) ==
    /\ t.op = "loadDependentAppointments"
    /\ io' = [NoIO EXCEPT
                !.settled = <<Settled("loadDependentAppointments", "getAppointmentChain", FALSE)>>,
                !.console = <<"error">>]
    /\ Finish(t)
    /\ UNCHANGED <<saFrame, isProcessing, saFields>>

\* handleConfirmBlock without the test of blockReason
handleConfirmBlock_NoReasonCheck ==
    /\ component = "saStatusUpdate"
    /\ isProcessing' = TRUE
    /\ CanSuspend
    /\ Suspend(Task("handleConfirmBlock", "updateRecord", "Cannot Complete", currentStatus))
    /\ io' = [NoIO EXCEPT
                !.calls = <<[call |-> "updateRecord", status |-> "Cannot Complete"]>>]
    /\ UNCHANGED <<saFrame, saFields>>

\* handleConfirmBlock up to "await updateRecord", or its early return
handleConfirmBlock ==
    /\ component = "saStatusUpdate"
    /\ IF blockReason = ""
       THEN /\ io' = [NoIO EXCEPT !.events = <<ShowToastEvent("Error", "error")>>]
            /\ UNCHANGED <<tasks, isProcessing>>
       ELSE /\ isProcessing' = TRUE
            /\ CanSuspend
            /\ Suspend(Task("handleConfirmBlock", "updateRecord",
                             "Cannot Complete", currentStatus))
            /\ io' = [NoIO EXCEPT
                        !.calls = <<[call |-> "updateRecord", status |-> "Cannot Complete"]>>]
    /\ UNCHANGED <<saFrame, saFields>>

\* updateRecord resolved: the optimizer is triggered and awaited
handleConfirmBlock_updated(t) ==
    /\ t.op = "handleConfirmBlock"
    /\ t.pc = "updateRecord"
    /\ statusValue' = t.arg
    /\ Resume(t, [t EXCEPT !.pc = "triggerRSOForBlockedAppointment", !.rso = @ + 1])
    /\ io' = [NoIO EXCEPT
                !.settled = <<Settled("handleConfirmBlock", "updateRecord", TRUE)>>,
                !.calls = <<[call |-> "triggerRSOForBlockedAppointment",
                             blockReason |-> blockReason, blockNotes |-> blockNotes]>>]
    /\ UNCHANGED <<saFrame, isProcessing, showBlockModal, blockReason, blockNotes,
                   dependentAppointments, showDependencyWarning>>

\* handleConfirmBlock with the optimizer triggered outside the try block
handleConfirmBlock_updateFailed_TriggersRSO(t) ==
    /\ t.op = "handleConfirmBlock"
    /\ t.pc = "updateRecord"
    /\ Resume(t, [t EXCEPT !.pc = "triggerRSOForBlockedAppointment", !.rso = @ + 1])
    /\ io' = [NoIO EXCEPT
                !.settled = <<Settled("handleConfirmBlock", "updateRecord", FALSE)>>,
                !.events = <<ShowToastEvent("Error", "error")>>,
                !.calls = <<[call |-> "triggerRSOForBlockedAppointment",
                             blockReason |-> blockReason, blockNotes |-> blockNotes]>>]
    /\ UNCHANGED <<saFrame, isProcessing, saFields>>

\* updateRecord rejected: catch and finally
handleConfirmBlock_updateFailed(t) ==
    /\ t.op = "handleConfirmBlock"
    /\ t.pc = "updateRecord"
    /\ io' = [NoIO EXCEPT
                !.settled = <<Settled("handleConfirmBlock", "updateRecord", FALSE)>>,
                !.events = <<ShowToastEvent("Error", "error")>>]
    /\ isProcessing' = FALSE
    /\ Finish(t)
    /\ UNCHANGED <<saFrame, saFields>>

\* triggerRSOForBlockedAppointment resolved: toast, handleCloseBlockModal, finally
handleConfirmBlock_try(t) ==
    /\ t.op = "handleConfirmBlock"
    /\ t.pc = "triggerRSOForBlockedAppointment"
    /\ io' = [NoIO EXCEPT
                !.settled = <<Settled("handleConfirmBlock", "triggerRSOForBlockedAppointment", TRUE)>>,
                !.events = <<ShowToastEvent("Appointment Blocked", "success")>>]
    /\ handleCloseBlockModal
    /\ isProcessing' = FALSE
    /\ Finish(t)
    /\ UNCHANGED <<saFrame, statusValue>>

\* handleConfirmBlock without its finally block
handleConfirmBlock_catch_NoFinally(t) ==
    /\ t.op = "handleConfirmBlock"
    /\ t.pc = "triggerRSOForBlockedAppointment"
    /\ io' = [NoIO EXCEPT
                !.settled = <<Settled("handleConfirmBlock", "triggerRSOForBlockedAppointment", FALSE)>>,
                !.events = <<ShowToastEvent("Error", "error")>>]
    /\ Finish(t)
    /\ UNCHANGED <<saFrame, isProcessing, saFields>>

\* triggerRSOForBlockedAppointment rejected: catch and finally
handleConfirmBlock_catch(t) ==
    /\ t.op = "handleConfirmBlock"
    /\ t.pc = "triggerRSOForBlockedAppointment"
    /\ io' = [NoIO EXCEPT
                !.settled = <<Settled("handleConfirmBlock", "triggerRSOForBlockedAppointment", FALSE)>>,
                !.events = <<ShowToastEvent("Error", "error")>>]
    /\ isProcessing' = FALSE
    /\ Finish(t)
    /\ UNCHANGED <<saFrame, saFields>>

saHandleClose ==
    /\ component = "saStatusUpdate"
    /\ io' = [NoIO EXCEPT !.events = <<CloseActionScreenEvent>>]
    /\ UNCHANGED <<saFrame, tasks, isProcessing, saFields>>

(***************************************************************************)
(* cpeProvisioning                                                         *)
(***************************************************************************)
ADAPT_STATUS ==
    [DISCONNECTED |-> "Disconnected",
     CONNECTING |-> "Connecting...",
     CONNECTED |-> "Connected",
     VALIDATING |-> "Validating...",
     VALIDATED |-> "Validated",
     PROVISIONING |-> "Provisioning...",
     PROVISIONED |-> "Provisioned",
     ACTIVATING |-> "Activating...",
     ACTIVATED |-> "Activated",
     ERROR |-> "Error"]

MaxLog == 18                \* entries of provisioningLog in a recorded behaviour

\* wire data: nothing loaded, or the appointment with its work order and asset
NoWire == [accountName |-> "", workOrderNumber |-> "", assetId |-> "", assetSerial |-> ""]

WireData ==
    {NoWire,
     [accountName |-> "Haven Enterprises", workOrderNumber |-> "00001027",
      assetId |-> "02i000000000001", assetSerial |-> "ONT-2024-00077"]}

\* values typed into the serial input, and String.prototype.trim on them
TypedSerials == {"", "   ", "ONT-MANUAL-01"}

trim(str) == IF str = "   " THEN "" ELSE str

ScannedSerials == {"ONT-SCAN-4471"}

SimulatedSerials == {"ONT-K3J9X0QZ"}

SignalStrengths == {"-23 dBm"}

OpticalPowers == {"1.73 mW"}

displayAccountName == IF wired.accountName # "" THEN wired.accountName ELSE "N/A"

displayWorkOrderNumber ==
    IF wired.workOrderNumber # "" THEN wired.workOrderNumber ELSE "Loading..."

displaySerialNumber ==
    IF manualSerialEntered THEN manualSerialNumber
    ELSE IF wired.assetSerial # "" THEN wired.assetSerial ELSE "N/A"

hasAsset == wired.assetId # "" \/ manualSerialEntered

showCpeDisplay == hasAsset /\ ~isChangingCpe

isManualSerialEmpty == manualSerialNumber = "" \/ trim(manualSerialNumber) = ""

disableStartProvisioning == isProcessing \/ (wired.assetId = "" /\ ~manualSerialEntered)

\* the entry addLog appends (timestamp and id are clock readings)
LogEntry(message, type) ==
    [message |-> message, type |-> type,
     iconName |-> IF type = "success" THEN "utility:success"
                  ELSE IF type = "error" THEN "utility:error" ELSE "utility:info"]

\* addLog that puts the new entry in front
addLog_Prepend(log, message, type) ==
    IF logging THEN <<LogEntry(message, type)>> \o log ELSE log

addLog(log, message, type) == IF logging THEN Append(log, LogEntry(message, type)) ELSE log

\* entries that a suspended invocation will still append
Remaining(t) ==
    IF t.op = "connectToADAPT" THEN (IF displayWorkOrderNumber # "Loading..." THEN 2 ELSE 1)
    ELSE IF t.op = "handleStep2Actions"
         THEN (IF t.pc = "validateSerial" THEN 7
               ELSE IF t.pc = "delay" THEN 5
               ELSE IF t.pc = "provisionCPE_1" THEN 4
               ELSE IF t.pc = "provisionCPE_2" THEN 3
               ELSE IF t.pc = "provisionCPE_3" THEN 2 ELSE 1)
    ELSE IF t.op = "runSignalTest" THEN 1
    ELSE IF t.op = "activateService"
         THEN (IF t.pc = "activateService_1" THEN 3
               ELSE IF t.pc = "activateService_2" THEN 2 ELSE 1)
    ELSE IF t.op = "handleScanBarcode" THEN 1
    ELSE 0

RECURSIVE Reserved(_)
Reserved(bag) ==
    IF bag = EmptyBag THEN 0
    ELSE LET t == CHOOSE u \in BagToSet(bag) : TRUE
         IN Remaining(t) + Reserved(bag (-) SetToBag({t}))

\* a recorded behaviour starts a handler only when the log has room for all
\* the entries that it and the suspended invocations append
LogRoom(n) == logging => Len(provisioningLog) + Reserved(tasks) + n <= MaxLog

handleManualSerialChange ==
    /\ component = "cpeProvisioning"
    /\ \E value \in TypedSerials : manualSerialNumber' = value
    /\ io' = NoIO
    /\ UNCHANGED <<cpeFrame, tasks, isProcessing, currentStep, adaptStatus,
                   provisioningComplete, manualSerialEntered, isChangingCpe,
                   signalStrength, opticalPower, connectionSpeed, provisioningLog>>

handleUseManualSerial ==
    /\ component = "cpeProvisioning"
    /\ LogRoom(1)
    /\ IF manualSerialNumber # "" /\ trim(manualSerialNumber) # ""
       THEN /\ manualSerialEntered' = TRUE
            /\ isChangingCpe' = FALSE
            /\ provisioningLog' = addLog(provisioningLog, <<"CPE set: ", manualSerialNumber>>, "info")
       ELSE UNCHANGED <<manualSerialEntered, isChangingCpe, provisioningLog>>
    /\ io' = NoIO
    /\ UNCHANGED <<cpeFrame, tasks, isProcessing, currentStep, adaptStatus,
                   provisioningComplete, manualSerialNumber,
                   signalStrength, opticalPower, connectionSpeed>>

handleChangeCpe ==
    /\ component = "cpeProvisioning"
    /\ isChangingCpe' = TRUE
    /\ manualSerialNumber' = ""
    /\ io' = NoIO
    /\ UNCHANGED <<cpeFrame, tasks, isProcessing, currentStep, adaptStatus,
                   provisioningComplete, manualSerialEntered,
                   signalStrength, opticalPower, connectionSpeed, provisioningLog>>

\* handleScanBarcode: beginCapture is pending, or the scan is simulated
handleScanBarcode ==
    /\ component = "cpeProvisioning"
    /\ LogRoom(1)
    /\ IF scanner = "available"
       THEN /\ CanSuspend
            /\ Suspend(Task("handleScanBarcode", "beginCapture", "", ""))
            /\ io' = [NoIO EXCEPT !.calls = <<[call |-> "beginCapture"]>>]
            /\ UNCHANGED <<manualSerialNumber, manualSerialEntered, provisioningLog>>
       ELSE /\ \E simulatedSerial \in SimulatedSerials :
                  /\ manualSerialNumber' = simulatedSerial
                  /\ provisioningLog' =
                        addLog(provisioningLog, <<"Simulated scan: ", simulatedSerial>>, "success")
            /\ manualSerialEntered' = TRUE
            /\ io' = [NoIO EXCEPT !.events = <<ShowToastEvent("Barcode Simulated", "info")>>]
            /\ UNCHANGED tasks
    /\ UNCHANGED <<cpeFrame, isProcessing, currentStep, adaptStatus, provisioningComplete,
                   isChangingCpe, signalStrength, opticalPower, connectionSpeed>>

handleScanBarcode_then(t) ==
    /\ t.op = "handleScanBarcode"
    /\ \E value \in ScannedSerials :
          /\ manualSerialNumber' = value
          /\ provisioningLog' = addLog(provisioningLog, <<"Barcode scanned: ", value>>, "success")
    /\ manualSerialEntered' = TRUE
    /\ io' = [NoIO EXCEPT !.settled = <<Settled("handleScanBarcode", "beginCapture", TRUE)>>,
                          !.calls = <<[call |-> "endCapture"]>>]
    /\ Finish(t)
    /\ UNCHANGED <<cpeFrame, isProcessing, currentStep, adaptStatus, provisioningComplete,
                   isChangingCpe, signalStrength, opticalPower, connectionSpeed>>

handleScanBarcode_catch(t) ==
    /\ t.op = "handleScanBarcode"
    /\ provisioningLog' = addLog(provisioningLog, <<"Scan error: ", "message">>, "error")
    /\ io' = [NoIO EXCEPT !.settled = <<Settled("handleScanBarcode", "beginCapture", FALSE)>>,
                          !.calls = <<[call |-> "endCapture"]>>]
    /\ Finish(t)
    /\ UNCHANGED <<cpeFrame, isProcessing, currentStep, adaptStatus, provisioningComplete,
                   manualSerialNumber, manualSerialEntered, isChangingCpe,
                   signalStrength, opticalPower, connectionSpeed>>

\* connectToADAPT up to "await this.delay(1500)"
connectToADAPT ==
    /\ isProcessing' = TRUE
    /\ adaptStatus' = ADAPT_STATUS.CONNECTING
    /\ provisioningLog' =
          addLog(provisioningLog,
                 <<"Connecting to ADAPT",
                   IF displayAccountName # "N/A" THEN <<" for ", displayAccountName>> ELSE <<>>,
                   "...">>, "info")
    /\ Suspend(Task("connectToADAPT", "connectToADAPT", "", ""))
    /\ io' = NoIO
    /\ UNCHANGED <<cpeFrame, currentStep, provisioningComplete, manualSerialNumber,
                   manualSerialEntered, isChangingCpe, signalStrength, opticalPower,
                   connectionSpeed>>

\* the start button is disabled under disableStartProvisioning
handleStartProvisioning ==
    /\ component = "cpeProvisioning"
    /\ ~disableStartProvisioning
    /\ CanSuspend
    /\ LogRoom(IF displayWorkOrderNumber # "Loading..." THEN 3 ELSE 2)
    /\ connectToADAPT

connectToADAPT_resume(t) ==
    /\ t.op = "connectToADAPT"
    /\ adaptStatus' = ADAPT_STATUS.CONNECTED
    /\ provisioningLog' =
          LET log1 == addLog(provisioningLog, <<"ADAPT connection established">>, "success")
          IN IF displayWorkOrderNumber # "Loading..."
             THEN addLog(log1, <<"WO: ", displayWorkOrderNumber>>, "info")
             ELSE log1
    /\ currentStep' = 2
    /\ isProcessing' = FALSE
    /\ Finish(t)
    /\ io' = NoIO
    /\ UNCHANGED <<cpeFrame, provisioningComplete, manualSerialNumber, manualSerialEntered,
                   isChangingCpe, signalStrength, opticalPower, connectionSpeed>>

\* validateSerial up to "await this.delay(2000)"
validateSerial ==
    /\ isProcessing' = TRUE
    /\ adaptStatus' = ADAPT_STATUS.VALIDATING
    /\ provisioningLog' =
          addLog(provisioningLog,
                 <<"Validating: ",
                   IF manualSerialEntered THEN manualSerialNumber ELSE displaySerialNumber>>,
                 "info")
    /\ Suspend(Task("handleStep2Actions", "validateSerial", "", ""))
    /\ io' = NoIO
    /\ UNCHANGED <<cpeFrame, currentStep, provisioningComplete, manualSerialNumber,
                   manualSerialEntered, isChangingCpe, signalStrength, opticalPower,
                   connectionSpeed>>

handleStep2Actions ==
    /\ component = "cpeProvisioning"
    /\ CanSuspend
    /\ LogRoom(8)
    /\ validateSerial

\* validateSerial after its delay; handleStep2Actions then awaits delay(500)
validateSerial_resume(t) ==
    /\ t.op = "handleStep2Actions"
    /\ t.pc = "validateSerial"
    /\ adaptStatus' = ADAPT_STATUS.VALIDATED
    /\ provisioningLog' =
          addLog(addLog(provisioningLog, <<"Serial validated">>, "success"),
                 <<"MAC: ", "generateMacAddress">>, "info")
    /\ isProcessing' = FALSE
    /\ Resume(t, [t EXCEPT !.pc = "delay"])
    /\ io' = NoIO
    /\ UNCHANGED <<cpeFrame, currentStep, provisioningComplete, manualSerialNumber,
                   manualSerialEntered, isChangingCpe, signalStrength, opticalPower,
                   connectionSpeed>>

\* provisionCPE up to its first "await this.delay(1000)"
provisionCPE(t) ==
    /\ isProcessing' = TRUE
    /\ adaptStatus' = ADAPT_STATUS.PROVISIONING
    /\ provisioningLog' = addLog(provisioningLog, <<"Provisioning CPE...">>, "info")
    /\ Resume(t, [t EXCEPT !.pc = "provisionCPE_1"])
    /\ io' = NoIO
    /\ UNCHANGED <<cpeFrame, currentStep, provisioningComplete, manualSerialNumber,
                   manualSerialEntered, isChangingCpe, signalStrength, opticalPower,
                   connectionSpeed>>

\* handleStep2Actions after delay(500)
handleStep2Actions_resume(t) ==
    /\ t.op = "handleStep2Actions"
    /\ t.pc = "delay"
    /\ provisionCPE(t)

\* provisionCPE after its first, second and third delay
provisionCPE_step(t) ==
    /\ t.op = "handleStep2Actions"
    /\ t.pc \in {"provisionCPE_1", "provisionCPE_2", "provisionCPE_3"}
    /\ provisioningLog' =
          addLog(provisioningLog,
                 IF t.pc = "provisionCPE_1" THEN <<"Creating service profile">>
                 ELSE IF t.pc = "provisionCPE_2" THEN <<"Configuring VLAN">>
                 ELSE <<"Setting QoS parameters">>, "info")
    /\ Resume(t, [t EXCEPT !.pc = IF t.pc = "provisionCPE_1" THEN "provisionCPE_2"
                                  ELSE IF t.pc = "provisionCPE_2" THEN "provisionCPE_3"
                                  ELSE "provisionCPE_4"])
    /\ io' = NoIO
    /\ UNCHANGED <<cpeFrame, isProcessing, currentStep, adaptStatus, provisioningComplete,
                   manualSerialNumber, manualSerialEntered, isChangingCpe,
                   signalStrength, opticalPower, connectionSpeed>>

\* provisionCPE with a failure path at the end of its last delay
provisionCPE_resume_Fails(t) ==
    /\ t.op = "handleStep2Actions"
    /\ t.pc = "provisionCPE_4"
    /\ adaptStatus' = ADAPT_STATUS.PROVISIONING
    /\ provisioningLog' = addLog(provisioningLog, <<"Provisioning failed">>, "error")
    /\ isProcessing' = FALSE
    /\ Finish(t)
    /\ io' = NoIO
    /\ UNCHANGED <<cpeFrame, currentStep, provisioningComplete, manualSerialNumber,
                   manualSerialEntered, isChangingCpe, signalStrength, opticalPower,
                   connectionSpeed>>

\* provisionCPE after its last delay
provisionCPE_resume(t) ==
    /\ t.op = "handleStep2Actions"
    /\ t.pc = "provisionCPE_4"
    /\ adaptStatus' = ADAPT_STATUS.PROVISIONED
    /\ provisioningLog' = addLog(provisioningLog, <<"CPE provisioned">>, "success")
    /\ currentStep' = 3
    /\ isProcessing' = FALSE
    /\ Finish(t)
    /\ io' = NoIO
    /\ UNCHANGED <<cpeFrame, provisioningComplete, manualSerialNumber, manualSerialEntered,
                   isChangingCpe, signalStrength, opticalPower, connectionSpeed>>

\* runSignalTest up to "await this.delay(2000)"
runSignalTest ==
    /\ isProcessing' = TRUE
    /\ provisioningLog' = addLog(provisioningLog, <<"Running signal test...">>, "info")
    /\ Suspend(Task("runSignalTest", "runSignalTest", "", ""))
    /\ io' = NoIO
    /\ UNCHANGED <<cpeFrame, currentStep, adaptStatus, provisioningComplete,
                   manualSerialNumber, manualSerialEntered, isChangingCpe,
                   signalStrength, opticalPower, connectionSpeed>>

handleRunSignalTest ==
    /\ component = "cpeProvisioning"
    /\ CanSuspend
    /\ LogRoom(2)
    /\ runSignalTest

runSignalTest_resume(t) ==
    /\ t.op = "runSignalTest"
    /\ \E strength \in SignalStrengths, power \in OpticalPowers :
          /\ signalStrength' = strength
          /\ opticalPower' = power
          /\ provisioningLog' = addLog(provisioningLog, <<"Signal: ", strength>>, "success")
    /\ connectionSpeed' = "1 Gbps"
    /\ isProcessing' = FALSE
    /\ Finish(t)
    /\ io' = NoIO
    /\ UNCHANGED <<cpeFrame, currentStep, adaptStatus, provisioningComplete,
                   manualSerialNumber, manualSerialEntered, isChangingCpe>>

\* activateService up to "await this.delay(2000)"
activateService ==
    /\ isProcessing' = TRUE
    /\ adaptStatus' = ADAPT_STATUS.ACTIVATING
    /\ provisioningLog' = addLog(provisioningLog, <<"Activating service...">>, "info")
    /\ Suspend(Task("activateService", "activateService_1", "", ""))
    /\ io' = NoIO
    /\ UNCHANGED <<cpeFrame, currentStep, provisioningComplete, manualSerialNumber,
                   manualSerialEntered, isChangingCpe, signalStrength, opticalPower,
                   connectionSpeed>>

handleActivate ==
    /\ component = "cpeProvisioning"
    /\ CanSuspend
    /\ LogRoom(4)
    /\ activateService

\* activateService after its first and second delay
activateService_step(t) ==
    /\ t.op = "activateService"
    /\ t.pc \in {"activateService_1", "activateService_2"}
    /\ provisioningLog' =
          addLog(provisioningLog,
                 IF t.pc = "activateService_1" THEN <<"Enabling data path">>
                 ELSE <<"Verifying connectivity">>, "info")
    /\ Resume(t, [t EXCEPT !.pc = IF t.pc = "activateService_1" THEN "activateService_2"
                                  ELSE "activateService_3"])
    /\ io' = NoIO
    /\ UNCHANGED <<cpeFrame, isProcessing, currentStep, adaptStatus, provisioningComplete,
                   manualSerialNumber, manualSerialEntered, isChangingCpe,
                   signalStrength, opticalPower, connectionSpeed>>

\* activateService after its last delay
activateService_resume(t) ==
    /\ t.op = "activateService"
    /\ t.pc = "activateService_3"
    /\ adaptStatus' = ADAPT_STATUS.ACTIVATED
    /\ provisioningLog' =
          addLog(provisioningLog,
                 <<"SERVICE ACTIVATED",
                   IF displayAccountName # "N/A" THEN <<" - ", displayAccountName>> ELSE <<>>>>,
                 "success")
    /\ currentStep' = 4
    /\ provisioningComplete' = TRUE
    /\ isProcessing' = FALSE
    /\ Finish(t)
    /\ io' = [NoIO EXCEPT !.events = <<ShowToastEvent("Provisioning Complete", "success")>>]
    /\ UNCHANGED <<cpeFrame, manualSerialNumber, manualSerialEntered, isChangingCpe,
                   signalStrength, opticalPower, connectionSpeed>>

cpeHandleClose ==
    /\ component = "cpeProvisioning"
    /\ io' = [NoIO EXCEPT !.events = <<CloseActionScreenEvent>>]
    /\ UNCHANGED <<cpeFrame, tasks, isProcessing, currentStep, adaptStatus,
                   provisioningComplete, manualSerialNumber, manualSerialEntered,
                   isChangingCpe, signalStrength, opticalPower, connectionSpeed,
                   provisioningLog>>

(***************************************************************************)
(* Telemetry threshold evaluation                                          *)
(***************************************************************************)
MaxReading == 2             \* readings and thresholds range over -MaxReading..MaxReading

\* processAttribute with the maximum compared first
processAttribute_MaxFirst(attr) ==
    LET result ==
          IF attr.value > attr.maxThreshold
          THEN [status |-> "warning", statusClass |-> "attr-warning",
                statusIcon |-> "utility:warning"]
          ELSE IF attr.value < attr.minThreshold
          THEN [status |-> "critical", statusClass |-> "attr-critical",
                statusIcon |-> "utility:error"]
          ELSE [status |-> "normal", statusClass |-> "attr-normal",
                statusIcon |-> "utility:success"]
    IN [name |-> attr.name, value |-> attr.value, minThreshold |-> attr.minThreshold,
        maxThreshold |-> attr.maxThreshold, category |-> attr.category,
        status |-> result.status, statusClass |-> result.statusClass,
        statusIcon |-> result.statusIcon]

\* buildingAssetMap.processAttribute: status, class and icon of an attribute
processAttribute(attr) ==
    LET result ==
          IF attr.value < attr.minThreshold
          THEN [status |-> "critical", statusClass |-> "attr-critical",
                statusIcon |-> "utility:error"]
          ELSE IF attr.value > attr.maxThreshold
          THEN [status |-> "warning", statusClass |-> "attr-warning",
                statusIcon |-> "utility:warning"]
          ELSE [status |-> "normal", statusClass |-> "attr-normal",
                statusIcon |-> "utility:success"]
    IN [name |-> attr.name, value |-> attr.value, minThreshold |-> attr.minThreshold,
        maxThreshold |-> attr.maxThreshold, category |-> attr.category,
        status |-> result.status, statusClass |-> result.statusClass,
        statusIcon |-> result.statusIcon]

\* the status that PredictiveMaintenanceController.getPredictiveData sets on a reading
getPredictiveDataStatus(value, minThreshold, maxThreshold) ==
    IF value < minThreshold THEN "critical"
    ELSE IF value > maxThreshold THEN "warning"
    ELSE "normal"

getReadingStatusClass(status) ==
    IF status = "critical" THEN "reading-status critical"
    ELSE IF status = "warning" THEN "reading-status warning"
    ELSE "reading-status normal"

getReadingStatusIcon(status) ==
    IF status = "critical" THEN "utility:error"
    ELSE IF status = "warning" THEN "utility:warning"
    ELSE "utility:success"

getReadingBarClass(status) ==
    IF status = "critical" THEN "reading-bar critical"
    ELSE IF status = "warning" THEN "reading-bar warning"
    ELSE "reading-bar normal"

\* getReadingStatusLabel with the labels of warning and critical exchanged
getReadingStatusLabel_Swapped(status) ==
    IF status = "critical" THEN "NEAR THRESHOLD"
    ELSE IF status = "warning" THEN "OUT OF THRESHOLD"
    ELSE "WITHIN THRESHOLD"

getReadingStatusLabel(status) ==
    IF status = "critical" THEN "OUT OF THRESHOLD"
    ELSE IF status = "warning" THEN "NEAR THRESHOLD"
    ELSE "WITHIN THRESHOLD"

getReadingItemClass(status) ==
    IF status = "critical" THEN "telemetry-item critical"
    ELSE IF status = "warning" THEN "telemetry-item warning"
    ELSE "telemetry-item normal"

\* predictiveMaintenance.telemetryReadings over a telemetryData list
telemetryReadingsOf(telemetryData) ==
    [i \in 1..Len(telemetryData) |->
        LET r == telemetryData[i] IN
        [value |-> r.value, minThreshold |-> r.minThreshold,
         maxThreshold |-> r.maxThreshold, status |-> r.status,
         statusClass |-> getReadingStatusClass(r.status),
         statusIcon |-> getReadingStatusIcon(r.status),
         statusLabel |-> getReadingStatusLabel(r.status),
         barClass |-> getReadingBarClass(r.status),
         itemClass |-> getReadingItemClass(r.status)]]

\* the map processes the reading as an asset attribute
processAttributeCall ==
    /\ component = "thresholds"
    /\ processedAttr = <<>>
    /\ processedAttr' =
          <<processAttribute([name |-> "Temperature", category |-> "Environmental",
                              value |-> reading.value,
                              minThreshold |-> reading.minThreshold,
                              maxThreshold |-> reading.maxThreshold])>>
    /\ io' = NoIO
    /\ UNCHANGED <<thresholdFrame, reading, telemetryReading>>

\* the dashboard renders the reading as getPredictiveData delivers it
telemetryReadingsCall ==
    /\ component = "thresholds"
    /\ telemetryReading = <<>>
    /\ telemetryReading' =
          telemetryReadingsOf(
             <<[value |-> reading.value, minThreshold |-> reading.minThreshold,
                maxThreshold |-> reading.maxThreshold,
                status |-> getPredictiveDataStatus(reading.value, reading.minThreshold,
                                                   reading.maxThreshold)]>>)
    /\ io' = NoIO
    /\ UNCHANGED <<thresholdFrame, reading, processedAttr>>

(***************************************************************************)
(* predictiveMaintenance                                                   *)
(***************************************************************************)
NoData == [present |-> FALSE, failureProbability |-> 0, upcomingWorkOrderId |-> "",
           telemetryData |-> <<>>]

PredictiveData ==
    {[present |-> TRUE, failureProbability |-> fp, upcomingWorkOrderId |-> wo,
      telemetryData |-> <<[value |-> 72, minThreshold |-> 10, maxThreshold |-> 65,
                           status |-> getPredictiveDataStatus(72, 10, 65)]>>] :
        fp \in {20, 65}, wo \in {"", "0WO000000000009"}}

LocationWorkOrders ==
    {<<>>,
     <<[workOrderId |-> "0WO000000000001"], [workOrderId |-> "0WO000000000002"]>>}

Falsy(v) == v \in {"undefined", "null", ""}

telemetryReadings == telemetryReadingsOf(data.telemetryData)

hasWorkOrders == Len(workOrders) > 0

showAddWorkButton == data.present /\ data.failureProbability >= 40 /\ ~workPlanCreated

isAddButtonDisabled == Falsy(selectedWorkOrderId)

\* wire getPredictiveData: data, error, or the provisioning without either
wiredData ==
    /\ component = "predictiveMaintenance"
    /\ \/ \E d \in PredictiveData :
             /\ wiredDataResult' = "data"
             /\ data' = d
             /\ isLoading' = FALSE
             /\ io' = [NoIO EXCEPT !.settled = <<Settled("wiredData", "getPredictiveData", TRUE)>>]
       \/ /\ wiredDataResult' = "error"
          /\ isLoading' = FALSE
          /\ io' = [NoIO EXCEPT !.settled = <<Settled("wiredData", "getPredictiveData", FALSE)>>,
                                !.console = <<"error">>]
          /\ UNCHANGED data
    /\ UNCHANGED <<pmFrame, tasks, workPlanCreated, workOrders, selectedWorkOrderId,
                   isCreating, showWorkOrderModal, createdWorkPlanId>>

\* wire getLocationWorkOrders: the error is not looked at
wiredWorkOrders ==
    /\ component = "predictiveMaintenance"
    /\ \/ /\ \E d \in LocationWorkOrders : workOrders' = d
          /\ io' = [NoIO EXCEPT
                      !.settled = <<Settled("wiredWorkOrders", "getLocationWorkOrders", TRUE)>>]
       \/ /\ UNCHANGED workOrders
          /\ io' = [NoIO EXCEPT
                      !.settled = <<Settled("wiredWorkOrders", "getLocationWorkOrders", FALSE)>>]
    /\ UNCHANGED <<pmFrame, tasks, workPlanCreated, data, selectedWorkOrderId, isLoading,
                   isCreating, showWorkOrderModal, createdWorkPlanId, wiredDataResult>>

\* createWorkPlan up to "await createPreventiveWorkPlan"
createWorkPlan(workOrderId) ==
    /\ CanSuspend
    /\ isCreating' = TRUE
    /\ showWorkOrderModal' = FALSE
    /\ Suspend(Task("createWorkPlan", "createPreventiveWorkPlan", workOrderId, ""))
    /\ io' = [NoIO EXCEPT !.calls = <<[call |-> "createPreventiveWorkPlan",
                                       workOrderId |-> workOrderId]>>]

\* handleAddPreventiveWork that looks at the location work orders first
handleAddPreventiveWork_ModalFirst ==
    /\ component = "predictiveMaintenance"
    /\ showAddWorkButton
    /\ IF Len(workOrders) > 0
       THEN /\ showWorkOrderModal' = TRUE
            /\ io' = NoIO
            /\ UNCHANGED <<tasks, isCreating, selectedWorkOrderId>>
       ELSE IF data.present /\ data.upcomingWorkOrderId # ""
       THEN /\ selectedWorkOrderId' = data.upcomingWorkOrderId
            /\ createWorkPlan(data.upcomingWorkOrderId)
       ELSE /\ io' = [NoIO EXCEPT
                        !.events = <<ShowToastEvent("No Work Orders Available", "warning")>>]
            /\ UNCHANGED <<tasks, isCreating, selectedWorkOrderId, showWorkOrderModal>>
    /\ UNCHANGED <<pmFrame, workPlanCreated, data, workOrders, isLoading,
                   createdWorkPlanId, wiredDataResult>>

\* the "Add Preventive Work" button is rendered under showAddWorkButton
handleAddPreventiveWork ==
    /\ component = "predictiveMaintenance"
    /\ showAddWorkButton
    /\ IF data.present /\ data.upcomingWorkOrderId # ""
       THEN /\ selectedWorkOrderId' = data.upcomingWorkOrderId
            /\ createWorkPlan(data.upcomingWorkOrderId)
       ELSE IF Len(workOrders) > 0
       THEN /\ showWorkOrderModal' = TRUE
            /\ io' = NoIO
            /\ UNCHANGED <<tasks, isCreating, selectedWorkOrderId>>
       ELSE /\ io' = [NoIO EXCEPT
                        !.events = <<ShowToastEvent("No Work Orders Available", "warning")>>]
            /\ UNCHANGED <<tasks, isCreating, selectedWorkOrderId, showWorkOrderModal>>
    /\ UNCHANGED <<pmFrame, workPlanCreated, data, workOrders, isLoading,
                   createdWorkPlanId, wiredDataResult>>

\* the combobox offers the ids of workOrderOptions
handleWorkOrderSelect ==
    /\ component = "predictiveMaintenance"
    /\ \E i \in DOMAIN workOrders : selectedWorkOrderId' = workOrders[i].workOrderId
    /\ io' = NoIO
    /\ UNCHANGED <<pmFrame, tasks, workPlanCreated, data, workOrders, isLoading,
                   isCreating, showWorkOrderModal, createdWorkPlanId, wiredDataResult>>

handleCloseModal ==
    /\ component = "predictiveMaintenance"
    /\ showWorkOrderModal' = FALSE
    /\ selectedWorkOrderId' = "null"
    /\ io' = NoIO
    /\ UNCHANGED <<pmFrame, tasks, workPlanCreated, data, workOrders, isLoading,
                   isCreating, createdWorkPlanId, wiredDataResult>>

handleConfirmWorkOrder ==
    /\ component = "predictiveMaintenance"
    /\ IF ~Falsy(selectedWorkOrderId)
       THEN createWorkPlan(selectedWorkOrderId)
       ELSE /\ io' = NoIO
            /\ UNCHANGED <<tasks, isCreating, showWorkOrderModal>>
    /\ UNCHANGED <<pmFrame, workPlanCreated, data, workOrders, selectedWorkOrderId,
                   isLoading, createdWorkPlanId, wiredDataResult>>

\* createPreventiveWorkPlan resolved: try, then finally
createWorkPlan_try(t) ==
    /\ t.op = "createWorkPlan"
    /\ createdWorkPlanId' = "1w1000000000001"
    /\ workPlanCreated' = TRUE
    /\ io' = [NoIO EXCEPT
                !.settled = <<Settled("createWorkPlan", "createPreventiveWorkPlan", TRUE)>>,
                !.events = <<ShowToastEvent("Preventive Work Plan Created", "success")>>,
                !.calls = <<[call |-> "refreshApex"]>>]
    /\ isCreating' = FALSE
    /\ Finish(t)
    /\ UNCHANGED <<pmFrame, data, workOrders, selectedWorkOrderId, isLoading,
                   showWorkOrderModal, wiredDataResult>>

\* createWorkPlan whose catch block marks the work plan as created
createWorkPlan_catch_MarksCreated(t) ==
    /\ t.op = "createWorkPlan"
    /\ io' = [NoIO EXCEPT
                !.settled = <<Settled("createWorkPlan", "createPreventiveWorkPlan", FALSE)>>,
                !.console = <<"error">>,
                !.events = <<ShowToastEvent("Error", "error")>>]
    /\ workPlanCreated' = TRUE
    /\ isCreating' = FALSE
    /\ Finish(t)
    /\ UNCHANGED <<pmFrame, data, workOrders, selectedWorkOrderId,
                   isLoading, showWorkOrderModal, createdWorkPlanId, wiredDataResult>>

\* createPreventiveWorkPlan rejected: catch, then finally
createWorkPlan_catch(t) ==
    /\ t.op = "createWorkPlan"
    /\ io' = [NoIO EXCEPT
                !.settled = <<Settled("createWorkPlan", "createPreventiveWorkPlan", FALSE)>>,
                !.console = <<"error">>,
                !.events = <<ShowToastEvent("Error", "error")>>]
    /\ isCreating' = FALSE
    /\ Finish(t)
    /\ UNCHANGED <<pmFrame, workPlanCreated, data, workOrders, selectedWorkOrderId,
                   isLoading, showWorkOrderModal, createdWorkPlanId, wiredDataResult>>

NavigateEvent(objectApiName) == [kind |-> "Navigate", title |-> objectApiName, variant |-> ""]

handleViewWorkOrder ==
    /\ component = "predictiveMaintenance"
    /\ io' = IF ~Falsy(selectedWorkOrderId)
             THEN [NoIO EXCEPT !.events = <<NavigateEvent("WorkOrder")>>]
             ELSE NoIO
    /\ UNCHANGED <<pmFrame, tasks, workPlanCreated, pmFields>>

handleViewWorkPlan ==
    /\ component = "predictiveMaintenance"
    /\ io' = IF ~Falsy(createdWorkPlanId)
             THEN [NoIO EXCEPT !.events = <<NavigateEvent("WorkPlan")>>]
             ELSE NoIO
    /\ UNCHANGED <<pmFrame, tasks, workPlanCreated, pmFields>>

(***************************************************************************)
(* buildingAssetMap                                                        *)
(***************************************************************************)
\* the assets of loadHavenDataCenterAssets; value and thresholds in thousandths
HavenDataCenterAssets ==
    <<
     [floor |-> "1", isExpanded |-> TRUE, assets |-> <<
         [id |-> "haven-olt-001", name |-> "OLT-A01-001", status |-> "Active", attributes |-> <<
              [name |-> "Temperature", value |-> 42000, minThreshold |-> 10000, maxThreshold |-> 65000, category |-> "Environmental"],
              [name |-> "CPU Utilization", value |-> 38000, minThreshold |-> 0, maxThreshold |-> 85000, category |-> "Performance"],
              [name |-> "Memory Usage", value |-> 52000, minThreshold |-> 0, maxThreshold |-> 90000, category |-> "Performance"],
              [name |-> "Optical Power Rx", value |-> -18500, minThreshold |-> -28000, maxThreshold |-> -8000, category |-> "Signal"],
              [name |-> "Active PON Ports", value |-> 14000, minThreshold |-> 1000, maxThreshold |-> 16000, category |-> "Connectivity"],
              [name |-> "Uptime", value |-> 99980, minThreshold |-> 99000, maxThreshold |-> 100000, category |-> "Availability"]>>],
         [id |-> "haven-olt-002", name |-> "OLT-A01-002", status |-> "Warning", attributes |-> <<
              [name |-> "Temperature", value |-> 72000, minThreshold |-> 10000, maxThreshold |-> 65000, category |-> "Environmental"],
              [name |-> "CPU Utilization", value |-> 92000, minThreshold |-> 0, maxThreshold |-> 85000, category |-> "Performance"],
              [name |-> "Memory Usage", value |-> 88000, minThreshold |-> 0, maxThreshold |-> 90000, category |-> "Performance"],
              [name |-> "Optical Power Rx", value |-> -26500, minThreshold |-> -28000, maxThreshold |-> -8000, category |-> "Signal"],
              [name |-> "Active PON Ports", value |-> 16000, minThreshold |-> 1000, maxThreshold |-> 16000, category |-> "Connectivity"],
              [name |-> "Uptime", value |-> 98200, minThreshold |-> 99000, maxThreshold |-> 100000, category |-> "Availability"]>>],
         [id |-> "sea-002", name |-> "CORE-SW-001", status |-> "Active", attributes |-> <<
              [name |-> "Temperature", value |-> 38000, minThreshold |-> 10000, maxThreshold |-> 70000, category |-> "Environmental"],
              [name |-> "Throughput", value |-> 847000, minThreshold |-> 0, maxThreshold |-> 1000000, category |-> "Performance"],
              [name |-> "Packet Loss", value |-> 1, minThreshold |-> 0, maxThreshold |-> 100, category |-> "Performance"],
              [name |-> "Active Ports", value |-> 42000, minThreshold |-> 1000, maxThreshold |-> 48000, category |-> "Connectivity"],
              [name |-> "Fan Speed", value |-> 4200000, minThreshold |-> 2000000, maxThreshold |-> 8000000, category |-> "Environmental"],
              [name |-> "Power Draw", value |-> 2800, minThreshold |-> 0, maxThreshold |-> 4500, category |-> "Power"]>>],
         [id |-> "sea-003", name |-> "EDGE-RTR-001", status |-> "Active", attributes |-> <<
              [name |-> "Temperature", value |-> 45000, minThreshold |-> 10000, maxThreshold |-> 65000, category |-> "Environmental"],
              [name |-> "BGP Sessions", value |-> 28000, minThreshold |-> 1000, maxThreshold |-> 50000, category |-> "Connectivity"],
              [name |-> "Route Table Size", value |-> 892000000, minThreshold |-> 0, maxThreshold |-> 1000000000, category |-> "Performance"],
              [name |-> "CPU Utilization", value |-> 24000, minThreshold |-> 0, maxThreshold |-> 80000, category |-> "Performance"],
              [name |-> "Interface Errors", value |-> 0, minThreshold |-> 0, maxThreshold |-> 100000, category |-> "Health"],
              [name |-> "Latency", value |-> 1200, minThreshold |-> 0, maxThreshold |-> 10000, category |-> "Performance"]>>],
         [id |-> "sea-004", name |-> "FDP-SEA-001", status |-> "Active", attributes |-> <<
              [name |-> "Connected Fibers", value |-> 144000, minThreshold |-> 1000, maxThreshold |-> 288000, category |-> "Connectivity"],
              [name |-> "Avg Insertion Loss", value |-> 180, minThreshold |-> 0, maxThreshold |-> 500, category |-> "Signal"],
              [name |-> "Temperature", value |-> 22000, minThreshold |-> 15000, maxThreshold |-> 35000, category |-> "Environmental"],
              [name |-> "Humidity", value |-> 42000, minThreshold |-> 20000, maxThreshold |-> 60000, category |-> "Environmental"]>>]>>],
     [floor |-> "2", isExpanded |-> FALSE, assets |-> <<
         [id |-> "sea-005", name |-> "DWDM-SEA-001", status |-> "Active", attributes |-> <<
              [name |-> "Active Wavelengths", value |-> 80000, minThreshold |-> 1000, maxThreshold |-> 96000, category |-> "Capacity"],
              [name |-> "Total Bandwidth", value |-> 9600, minThreshold |-> 0, maxThreshold |-> 12000, category |-> "Performance"],
              [name |-> "OSNR", value |-> 28000, minThreshold |-> 18000, maxThreshold |-> 40000, category |-> "Signal"],
              [name |-> "Amplifier Temp", value |-> 35000, minThreshold |-> 10000, maxThreshold |-> 50000, category |-> "Environmental"],
              [name |-> "Laser Bias Current", value |-> 42000, minThreshold |-> 20000, maxThreshold |-> 80000, category |-> "Health"],
              [name |-> "Chromatic Dispersion", value |-> 850000, minThreshold |-> 0, maxThreshold |-> 1500000, category |-> "Signal"]>>],
         [id |-> "sea-006", name |-> "ROADM-SEA-001", status |-> "Active", attributes |-> <<
              [name |-> "Add/Drop Channels", value |-> 16000, minThreshold |-> 0, maxThreshold |-> 20000, category |-> "Capacity"],
              [name |-> "Express Channels", value |-> 64000, minThreshold |-> 0, maxThreshold |-> 80000, category |-> "Capacity"],
              [name |-> "WSS Insertion Loss", value |-> 5200, minThreshold |-> 0, maxThreshold |-> 8000, category |-> "Signal"],
              [name |-> "Power Consumption", value |-> 1800, minThreshold |-> 0, maxThreshold |-> 3000, category |-> "Power"],
              [name |-> "Temperature", value |-> 32000, minThreshold |-> 10000, maxThreshold |-> 45000, category |-> "Environmental"]>>],
         [id |-> "sea-007", name |-> "OTN-SW-001", status |-> "Warning", attributes |-> <<
              [name |-> "Temperature", value |-> 68000, minThreshold |-> 10000, maxThreshold |-> 65000, category |-> "Environmental"],
              [name |-> "Fan Status", value |-> 3000, minThreshold |-> 4000, maxThreshold |-> 6000, category |-> "Health"],
              [name |-> "CPU Utilization", value |-> 78000, minThreshold |-> 0, maxThreshold |-> 85000, category |-> "Performance"],
              [name |-> "FEC Corrections", value |-> 245000, minThreshold |-> 0, maxThreshold |-> 100000, category |-> "Health"],
              [name |-> "Active ODU Clients", value |-> 42000, minThreshold |-> 0, maxThreshold |-> 80000, category |-> "Capacity"],
              [name |-> "Power Draw", value |-> 4200, minThreshold |-> 0, maxThreshold |-> 5000, category |-> "Power"]>>]>>],
     [floor |-> "3", isExpanded |-> FALSE, assets |-> <<
         [id |-> "sea-008", name |-> "BLADE-SEA-001", status |-> "Active", attributes |-> <<
              [name |-> "Active Blades", value |-> 7000, minThreshold |-> 1000, maxThreshold |-> 8000, category |-> "Capacity"],
              [name |-> "Avg CPU Temp", value |-> 58000, minThreshold |-> 10000, maxThreshold |-> 85000, category |-> "Environmental"],
              [name |-> "Total vCPUs", value |-> 448000, minThreshold |-> 0, maxThreshold |-> 512000, category |-> "Capacity"],
              [name |-> "Memory Allocated", value |-> 2800, minThreshold |-> 0, maxThreshold |-> 4000, category |-> "Capacity"],
              [name |-> "Network I/O", value |-> 185000, minThreshold |-> 0, maxThreshold |-> 400000, category |-> "Performance"],
              [name |-> "Power Draw", value |-> 8500, minThreshold |-> 0, maxThreshold |-> 12000, category |-> "Power"]>>],
         [id |-> "sea-009", name |-> "STORAGE-SEA-001", status |-> "Active", attributes |-> <<
              [name |-> "Capacity Used", value |-> 72000, minThreshold |-> 0, maxThreshold |-> 85000, category |-> "Capacity"],
              [name |-> "IOPS", value |-> 485000000, minThreshold |-> 0, maxThreshold |-> 1000000000, category |-> "Performance"],
              [name |-> "Latency", value |-> 400, minThreshold |-> 0, maxThreshold |-> 2000, category |-> "Performance"],
              [name |-> "Throughput", value |-> 18500, minThreshold |-> 0, maxThreshold |-> 25000, category |-> "Performance"],
              [name |-> "Drive Health", value |-> 100000, minThreshold |-> 90000, maxThreshold |-> 100000, category |-> "Health"],
              [name |-> "Temperature", value |-> 28000, minThreshold |-> 15000, maxThreshold |-> 40000, category |-> "Environmental"]>>],
         [id |-> "sea-010", name |-> "BACKUP-SEA-001", status |-> "Active", attributes |-> <<
              [name |-> "Backup Success Rate", value |-> 99800, minThreshold |-> 98000, maxThreshold |-> 100000, category |-> "Health"],
              [name |-> "Dedup Ratio", value |-> 4200, minThreshold |-> 2000, maxThreshold |-> 10000, category |-> "Efficiency"],
              [name |-> "Repository Used", value |-> 68000, minThreshold |-> 0, maxThreshold |-> 90000, category |-> "Capacity"],
              [name |-> "Jobs Running", value |-> 3000, minThreshold |-> 0, maxThreshold |-> 12000, category |-> "Performance"],
              [name |-> "Last Backup Age", value |-> 2500, minThreshold |-> 0, maxThreshold |-> 24000, category |-> "Health"]>>]>>],
     [floor |-> "4", isExpanded |-> FALSE, assets |-> <<
         [id |-> "haven-ups-001", name |-> "UPS-A01-001", status |-> "Warning", attributes |-> <<
              [name |-> "Load", value |-> 62000, minThreshold |-> 0, maxThreshold |-> 80000, category |-> "Capacity"],
              [name |-> "Battery Health", value |-> 68000, minThreshold |-> 70000, maxThreshold |-> 100000, category |-> "Health"],
              [name |-> "Charge Cycles", value |-> 847000, minThreshold |-> 0, maxThreshold |-> 850000, category |-> "Health"],
              [name |-> "Input Voltage", value |-> 478000, minThreshold |-> 456000, maxThreshold |-> 504000, category |-> "Power"],
              [name |-> "Output Voltage", value |-> 480000, minThreshold |-> 470000, maxThreshold |-> 490000, category |-> "Power"],
              [name |-> "Battery Temp", value |-> 32000, minThreshold |-> 15000, maxThreshold |-> 35000, category |-> "Environmental"],
              [name |-> "Runtime Remaining", value |-> 12000, minThreshold |-> 10000, maxThreshold |-> 60000, category |-> "Health"]>>],
         [id |-> "sea-012", name |-> "PDU-SEA-001", status |-> "Active", attributes |-> <<
              [name |-> "Total Load", value |-> 285000, minThreshold |-> 0, maxThreshold |-> 400000, category |-> "Capacity"],
              [name |-> "Phase A Current", value |-> 198000, minThreshold |-> 0, maxThreshold |-> 300000, category |-> "Power"],
              [name |-> "Phase B Current", value |-> 205000, minThreshold |-> 0, maxThreshold |-> 300000, category |-> "Power"],
              [name |-> "Phase C Current", value |-> 192000, minThreshold |-> 0, maxThreshold |-> 300000, category |-> "Power"],
              [name |-> "Power Factor", value |-> 950, minThreshold |-> 850, maxThreshold |-> 1000, category |-> "Efficiency"],
              [name |-> "Breaker Trips", value |-> 0, minThreshold |-> 0, maxThreshold |-> 1000, category |-> "Health"]>>],
         [id |-> "sea-013", name |-> "CRAC-SEA-001", status |-> "Warning", attributes |-> <<
              [name |-> "Supply Air Temp", value |-> 19000, minThreshold |-> 15000, maxThreshold |-> 22000, category |-> "Environmental"],
              [name |-> "Return Air Temp", value |-> 32000, minThreshold |-> 20000, maxThreshold |-> 30000, category |-> "Environmental"],
              [name |-> "Humidity", value |-> 58000, minThreshold |-> 40000, maxThreshold |-> 55000, category |-> "Environmental"],
              [name |-> "Compressor Status", value |-> 1000, minThreshold |-> 2000, maxThreshold |-> 2000, category |-> "Health"],
              [name |-> "Refrigerant Pressure", value |-> 285000, minThreshold |-> 250000, maxThreshold |-> 350000, category |-> "Health"],
              [name |-> "Airflow", value |-> 8500000, minThreshold |-> 8000000, maxThreshold |-> 12000000, category |-> "Performance"]>>],
         [id |-> "sea-014", name |-> "GEN-SEA-001", status |-> "Active", attributes |-> <<
              [name |-> "Fuel Level", value |-> 85000, minThreshold |-> 25000, maxThreshold |-> 100000, category |-> "Capacity"],
              [name |-> "Battery Voltage", value |-> 26400, minThreshold |-> 24000, maxThreshold |-> 28000, category |-> "Health"],
              [name |-> "Coolant Temp", value |-> 45000, minThreshold |-> 30000, maxThreshold |-> 95000, category |-> "Environmental"],
              [name |-> "Oil Pressure", value |-> 62000, minThreshold |-> 40000, maxThreshold |-> 80000, category |-> "Health"],
              [name |-> "Run Hours", value |-> 142000, minThreshold |-> 0, maxThreshold |-> 500000, category |-> "Maintenance"],
              [name |-> "Last Test", value |-> 3000, minThreshold |-> 0, maxThreshold |-> 30000, category |-> "Maintenance"]>>]>>]
    >>

\* loadHavenDataCenterAssets that collects only the attributes above their maximum
loadHavenDataCenterAssets_WarningOnly ==
    [f \in DOMAIN HavenDataCenterAssets |->
        LET floor == HavenDataCenterAssets[f] IN
        [floor |-> floor.floor, isExpanded |-> floor.isExpanded,
         assets |->
            [a \in DOMAIN floor.assets |->
                LET asset == floor.assets[a]
                    attributes == [i \in DOMAIN asset.attributes |->
                                      processAttribute(asset.attributes[i])]
                    warningAttributes ==
                        SelectSeq(attributes, LAMBDA x : x.status = "warning")
                IN [id |-> asset.id, name |-> asset.name, status |-> asset.status,
                    attributes |-> attributes,
                    warningAttributes |-> warningAttributes,
                    hasWarnings |-> Len(warningAttributes) > 0]]]]

\* loadHavenDataCenterAssets: the attributes processed, the warnings collected
loadHavenDataCenterAssets ==
    [f \in DOMAIN HavenDataCenterAssets |->
        LET floor == HavenDataCenterAssets[f] IN
        [floor |-> floor.floor, isExpanded |-> floor.isExpanded,
         assets |->
            [a \in DOMAIN floor.assets |->
                LET asset == floor.assets[a]
                    attributes == [i \in DOMAIN asset.attributes |->
                                      processAttribute(asset.attributes[i])]
                    warningAttributes ==
                        SelectSeq(attributes,
                                  LAMBDA x : x.status = "warning" \/ x.status = "critical")
                IN [id |-> asset.id, name |-> asset.name, status |-> asset.status,
                    attributes |-> attributes,
                    warningAttributes |-> warningAttributes,
                    hasWarnings |-> Len(warningAttributes) > 0]]]]

AllAssets ==
    UNION {{assetsByFloor[f].assets[a] : a \in DOMAIN assetsByFloor[f].assets} :
              f \in DOMAIN assetsByFloor}

\* findAssetById: <<>> for null
findAssetById(assetId) ==
    LET found == {x \in AllAssets : x.id = assetId}
    IN IF found = {} THEN <<>> ELSE <<CHOOSE x \in found : TRUE>>

\* the initial value of gisLayers (colours left out)
GisLayers ==
    <<[id |-> "backbone", name |-> "Fiber Backbone", visible |-> TRUE, type |-> "line"],
      [id |-> "distribution", name |-> "Distribution", visible |-> TRUE, type |-> "line"],
      [id |-> "zones", name |-> "Facility Zones", visible |-> TRUE, type |-> "polygon"],
      [id |-> "assets", name |-> "Assets", visible |-> TRUE, type |-> "marker"]>>

\* isLayerVisible: a layer that is not found counts as visible
isLayerVisible(layerId) ==
    LET found == {i \in DOMAIN gisLayers : gisLayers[i].id = layerId}
    IN IF found = {} THEN TRUE ELSE gisLayers[CHOOSE i \in found : \A j \in found : i <= j].visible

\* the ids of assetOffsets, in their order
assetOffsets ==
    <<"haven-olt-001", "haven-olt-002", "sea-002", "sea-003", "sea-004", "sea-005",
      "sea-006", "sea-007", "sea-008", "sea-009", "sea-010", "haven-ups-001",
      "sea-012", "sea-013", "sea-014">>

Polygon(value) == [value |-> value, type |-> "Polygon"]

RECURSIVE assetMarkers(_)
assetMarkers(offsets) ==
    IF offsets = <<>> THEN <<>>
    ELSE LET asset == findAssetById(Head(offsets))
         IN (IF asset # <<>> THEN <<[value |-> asset[1].id, type |-> "Marker"]>> ELSE <<>>)
            \o assetMarkers(Tail(offsets))

\* mapMarkers: value and kind of every element handed to lightning-map
mapMarkers ==
    <<[value |-> "data-center", type |-> "Marker"]>>
    \o (IF isLayerVisible("backbone")
        THEN <<Polygon("backbone-main"), Polygon("backbone-ns")>> ELSE <<>>)
    \o (IF isLayerVisible("distribution")
        THEN <<Polygon("dist-nw"), Polygon("dist-ne"), Polygon("dist-s")>> ELSE <<>>)
    \o (IF isLayerVisible("zones")
        THEN <<Polygon("zone-main"), Polygon("zone-generator"), Polygon("zone-cooling"),
               Polygon("zone-parking")>> ELSE <<>>)
    \o (IF isLayerVisible("assets") THEN assetMarkers(assetOffsets) ELSE <<>>)

\* data-layer of the checkboxes of the layer controls, and of no layer
LayerIds == {"backbone", "distribution", "zones", "assets", "roads"}

\* handleLayerToggle that switches every layer at once
handleLayerToggle_AllLayers ==
    /\ component = "buildingAssetMap"
    /\ \E layerId \in LayerIds, checked \in BOOLEAN :
          gisLayers' = [i \in DOMAIN gisLayers |-> [gisLayers[i] EXCEPT !.visible = checked]]
    /\ io' = NoIO
    /\ UNCHANGED <<mapFrame, tasks, workPlanCreated, selectedAsset, showAssetDetail,
                   isCreatingWorkPlan>>

handleLayerToggle ==
    /\ component = "buildingAssetMap"
    /\ \E layerId \in LayerIds, checked \in BOOLEAN :
          gisLayers' = [i \in DOMAIN gisLayers |->
                           IF gisLayers[i].id = layerId
                           THEN [gisLayers[i] EXCEPT !.visible = checked]
                           ELSE gisLayers[i]]
    /\ io' = NoIO
    /\ UNCHANGED <<mapFrame, tasks, workPlanCreated, selectedAsset, showAssetDetail,
                   isCreatingWorkPlan>>

\* data-id of the assets clicked in the floor list and on the SVG overlay, and
\* selectedMarkerValue of the markers selected on the map
ListedAssetIds == {"haven-olt-001", "haven-olt-002", "sea-007"}

OverlayAssetIds == {"haven-olt-002", "sea-013", "sea-014"}

MarkerValues == {"haven-ups-001", "sea-002", "data-center", "backbone-main", ""}

\* data-index of the floor headers (0-based), and of no floor
FloorIndexes == 0..4

\* handleFloorToggle: the floor at the index is expanded or collapsed
handleFloorToggle ==
    /\ component = "buildingAssetMap"
    /\ \E floorIndex \in FloorIndexes :
          assetsByFloor' =
              [idx \in DOMAIN assetsByFloor |->
                  IF idx - 1 = floorIndex
                  THEN [assetsByFloor[idx] EXCEPT !.isExpanded = ~assetsByFloor[idx].isExpanded]
                  ELSE assetsByFloor[idx]]
    /\ io' = NoIO
    /\ UNCHANGED <<component, recordId, isProcessing, saFields, cpeFields, pmFields,
                   opmFields, thresholdFields, gisLayers, tasks, workPlanCreated, selectedAsset,
                   showAssetDetail, isCreatingWorkPlan>>

handleAssetClick ==
    /\ component = "buildingAssetMap"
    /\ \E assetId \in ListedAssetIds :
          IF findAssetById(assetId) # <<>>
          THEN /\ selectedAsset' = findAssetById(assetId)
               /\ showAssetDetail' = TRUE
          ELSE UNCHANGED <<selectedAsset, showAssetDetail>>
    /\ io' = NoIO
    /\ UNCHANGED <<mapFrame, gisLayers, tasks, workPlanCreated, isCreatingWorkPlan>>

handleMapAssetClick ==
    /\ component = "buildingAssetMap"
    /\ \E assetId \in OverlayAssetIds :
          IF findAssetById(assetId) # <<>>
          THEN /\ selectedAsset' = findAssetById(assetId)
               /\ showAssetDetail' = TRUE
          ELSE UNCHANGED <<selectedAsset, showAssetDetail>>
    /\ io' = NoIO
    /\ UNCHANGED <<mapFrame, gisLayers, tasks, workPlanCreated, isCreatingWorkPlan>>

handleMarkerSelect ==
    /\ component = "buildingAssetMap"
    /\ \E selectedMarkerValue \in MarkerValues :
          IF /\ selectedMarkerValue # ""
             /\ selectedMarkerValue # "data-center"
             /\ findAssetById(selectedMarkerValue) # <<>>
          THEN /\ selectedAsset' = findAssetById(selectedMarkerValue)
               /\ showAssetDetail' = TRUE
          ELSE UNCHANGED <<selectedAsset, showAssetDetail>>
    /\ io' = NoIO
    /\ UNCHANGED <<mapFrame, gisLayers, tasks, workPlanCreated, isCreatingWorkPlan>>

handleCloseDetail ==
    /\ component = "buildingAssetMap"
    /\ showAssetDetail' = FALSE
    /\ selectedAsset' = <<>>
    /\ workPlanCreated' = FALSE
    /\ io' = NoIO
    /\ UNCHANGED <<mapFrame, gisLayers, tasks, isCreatingWorkPlan>>

\* the names of the warning attributes that the call carries
\* warningAttrs with every attribute of the asset
warningAttrs_All(asset) ==
    [i \in DOMAIN asset.attributes |->
        LET attr == asset.attributes[i]
        IN [name |-> attr.name, attrValue |-> attr.value,
            minThreshold |-> attr.minThreshold, maxThreshold |-> attr.maxThreshold,
            category |-> attr.category]]

\* the warning attributes as they are passed to Apex (the unit is left out)
warningAttrs(asset) ==
    [i \in DOMAIN asset.warningAttributes |->
        LET attr == asset.warningAttributes[i]
        IN [name |-> attr.name, attrValue |-> attr.value,
            minThreshold |-> attr.minThreshold, maxThreshold |-> attr.maxThreshold,
            category |-> attr.category]]

\* handleAddInspectionWorkPlan up to "await createInspectionWorkPlan", or its returns
handleAddInspectionWorkPlan ==
    /\ component = "buildingAssetMap"
    /\ IF selectedAsset = <<>> \/ ~selectedAsset[1].hasWarnings
       THEN /\ io' = NoIO
            /\ UNCHANGED <<tasks, workPlanCreated, isCreatingWorkPlan>>
       ELSE IF recordId = ""
       THEN /\ io' = [NoIO EXCEPT !.events = <<ShowToastEvent("No Work Order", "warning")>>]
            /\ workPlanCreated' = TRUE
            /\ UNCHANGED <<tasks, isCreatingWorkPlan>>
       ELSE /\ CanSuspend
            /\ isCreatingWorkPlan' = TRUE
            /\ Suspend(Task("handleAddInspectionWorkPlan", "createInspectionWorkPlan",
                            selectedAsset[1].id, ""))
            /\ io' = [NoIO EXCEPT
                        !.calls = <<[call |-> "createInspectionWorkPlan",
                                     assetName |-> selectedAsset[1].name,
                                     warningAttributes |-> warningAttrs(selectedAsset[1])]>>]
            /\ UNCHANGED workPlanCreated
    /\ UNCHANGED <<mapFrame, gisLayers, selectedAsset, showAssetDetail>>

\* createInspectionWorkPlan resolved: the success toast reads selectedAsset.name,
\* which throws into the catch block when the detail view was closed meanwhile
handleAddInspectionWorkPlan_try(t) ==
    /\ t.op = "handleAddInspectionWorkPlan"
    /\ workPlanCreated' = TRUE
    /\ io' = IF selectedAsset # <<>>
             THEN [NoIO EXCEPT
                     !.settled = <<Settled("handleAddInspectionWorkPlan",
                                           "createInspectionWorkPlan", TRUE)>>,
                     !.events = <<ShowToastEvent("Inspection Work Plan Created", "success")>>]
             ELSE [NoIO EXCEPT
                     !.settled = <<Settled("handleAddInspectionWorkPlan",
                                           "createInspectionWorkPlan", TRUE)>>,
                     !.console = <<"error">>,
                     !.events = <<ShowToastEvent("Error", "error")>>]
    /\ isCreatingWorkPlan' = FALSE
    /\ Finish(t)
    /\ UNCHANGED <<mapFrame, gisLayers, selectedAsset, showAssetDetail>>

\* createInspectionWorkPlan rejected: catch, then finally
handleAddInspectionWorkPlan_catch(t) ==
    /\ t.op = "handleAddInspectionWorkPlan"
    /\ io' = [NoIO EXCEPT
                !.settled = <<Settled("handleAddInspectionWorkPlan",
                                      "createInspectionWorkPlan", FALSE)>>,
                !.console = <<"error">>,
                !.events = <<ShowToastEvent("Error", "error")>>]
    /\ isCreatingWorkPlan' = FALSE
    /\ Finish(t)
    /\ UNCHANGED <<mapFrame, gisLayers, workPlanCreated, selectedAsset, showAssetDetail>>

mapHandleClose ==
    /\ component = "buildingAssetMap"
    /\ io' = [NoIO EXCEPT !.events = <<CloseActionScreenEvent>>]
    /\ UNCHANGED <<mapFrame, gisLayers, tasks, workPlanCreated, selectedAsset, showAssetDetail,
                   isCreatingWorkPlan>>

(***************************************************************************)
(* orderProgressMobile                                                     *)
(***************************************************************************)
\* number and name of the stages of ORCHESTRATION_STAGES
ORCHESTRATION_STAGES ==
    <<[stage |-> 1, name |-> "Order Intake"],
      [stage |-> 2, name |-> "Design & Planning"],
      [stage |-> 3, name |-> "Procurement"],
      [stage |-> 4, name |-> "Construction"],
      [stage |-> 5, name |-> "Field Installation"],
      [stage |-> 6, name |-> "Testing & Turnup"],
      [stage |-> 7, name |-> "Billing Activation"]>>

CURRENT_STAGE == 5

\* the getter stages: status and expansion of every stage card
stages ==
    [i \in DOMAIN ORCHESTRATION_STAGES |->
        LET stage == ORCHESTRATION_STAGES[i]
            result ==
              IF stage.stage < CURRENT_STAGE
              THEN [status |-> "completed", statusLabel |-> "Complete",
                    statusClass |-> "stage-completed", statusIcon |-> "utility:check"]
              ELSE IF stage.stage = CURRENT_STAGE
              THEN [status |-> "current", statusLabel |-> "In Progress",
                    statusClass |-> "stage-current", statusIcon |-> "utility:sync"]
              ELSE [status |-> "pending", statusLabel |-> "Pending",
                    statusClass |-> "stage-pending", statusIcon |-> "utility:clock"]
            isExpanded == stage.stage \in expandedStages
        IN [stage |-> stage.stage, name |-> stage.name, status |-> result.status,
            statusLabel |-> result.statusLabel, statusClass |-> result.statusClass,
            statusIcon |-> result.statusIcon, isExpanded |-> isExpanded,
            isCurrent |-> stage.stage = CURRENT_STAGE,
            isCompleted |-> stage.stage < CURRENT_STAGE,
            isPending |-> stage.stage > CURRENT_STAGE,
            chevronIcon |-> IF isExpanded THEN "utility:chevrondown"
                            ELSE "utility:chevronright"]]

\* wire handleWorkOrderResult: errors, data without a work order, data with one
handleWorkOrderResult ==
    /\ component = "orderProgressMobile"
    /\ isLoading' = FALSE
    /\ \/ /\ io' = [NoIO EXCEPT
                      !.settled = <<Settled("handleWorkOrderResult", "graphql", FALSE)>>,
                      !.console = <<"error">>]
          /\ UNCHANGED workOrderData
       \/ /\ io' = [NoIO EXCEPT
                      !.settled = <<Settled("handleWorkOrderResult", "graphql", TRUE)>>]
          /\ \/ UNCHANGED workOrderData
             \/ workOrderData' = "node"
    /\ UNCHANGED <<opmFrame, expandedStages>>

\* data-stage of the stage cards
StageNumbers == {ORCHESTRATION_STAGES[i].stage : i \in DOMAIN ORCHESTRATION_STAGES}

\* handleStageClick that keeps only the clicked stage expanded
handleStageClick_Accordion ==
    /\ component = "orderProgressMobile"
    /\ \E stageNum \in StageNumbers :
          expandedStages' = IF stageNum \in expandedStages THEN {} ELSE {stageNum}
    /\ io' = NoIO
    /\ UNCHANGED <<opmFrame, isLoading, workOrderData>>

handleStageClick ==
    /\ component = "orderProgressMobile"
    /\ \E stageNum \in StageNumbers :
          expandedStages' = IF stageNum \in expandedStages
                            THEN expandedStages \ {stageNum}
                            ELSE expandedStages \cup {stageNum}
    /\ io' = NoIO
    /\ UNCHANGED <<opmFrame, isLoading, workOrderData>>

handleExpandAll ==
    /\ component = "orderProgressMobile"
    /\ expandedStages' = {ORCHESTRATION_STAGES[i].stage : i \in DOMAIN ORCHESTRATION_STAGES}
    /\ io' = NoIO
    /\ UNCHANGED <<opmFrame, isLoading, workOrderData>>

handleCollapseAll ==
    /\ component = "orderProgressMobile"
    /\ expandedStages' = {CURRENT_STAGE}
    /\ io' = NoIO
    /\ UNCHANGED <<opmFrame, isLoading, workOrderData>>

(***************************************************************************)
(* Initial states and specifications                                       *)
(***************************************************************************)
\* field initialisers of the classes
SaStatusUpdateFields ==
    /\ statusValue = ""
    /\ showBlockModal = FALSE
    /\ blockReason = ""
    /\ blockNotes = ""
    /\ dependentAppointments = <<>>
    /\ showDependencyWarning = FALSE

CpeProvisioningFields ==
    /\ wired = NoWire
    /\ scanner = "unavailable"
    /\ logging = FALSE
    /\ currentStep = 1
    /\ adaptStatus = ADAPT_STATUS.DISCONNECTED
    /\ provisioningComplete = FALSE
    /\ manualSerialNumber = ""
    /\ manualSerialEntered = FALSE
    /\ isChangingCpe = FALSE
    /\ signalStrength = "null"
    /\ opticalPower = "null"
    /\ connectionSpeed = "null"
    /\ provisioningLog = <<>>

PredictiveMaintenanceFields ==
    /\ data = NoData
    /\ workOrders = <<>>
    /\ selectedWorkOrderId = "undefined"
    /\ isLoading = TRUE
    /\ isCreating = FALSE
    /\ showWorkOrderModal = FALSE
    /\ createdWorkPlanId = "undefined"
    /\ wiredDataResult = "undefined"

BuildingAssetMapFields ==
    /\ gisLayers = GisLayers
    /\ assetsByFloor = <<>>
    /\ selectedAsset = <<>>
    /\ showAssetDetail = FALSE
    /\ isCreatingWorkPlan = FALSE

OrderProgressMobileFields ==
    /\ expandedStages = {CURRENT_STAGE}
    /\ workOrderData = "undefined"

ThresholdFields ==
    /\ reading = [value |-> 0, minThreshold |-> 0, maxThreshold |-> 0]
    /\ processedAttr = <<>>
    /\ telemetryReading = <<>>

Mounted(class) ==
    /\ component = class
    /\ tasks = EmptyBag
    /\ io = NoIO
    /\ isProcessing = FALSE
    /\ workPlanCreated = FALSE

StatusValues == DOMAIN STATUS_CONFIG \cup {""}

InitSaStatusUpdate ==
    /\ Mounted("saStatusUpdate")
    /\ recordId = "08p000000000001"
    /\ statusValue \in StatusValues
    /\ showBlockModal = FALSE
    /\ blockReason = ""
    /\ blockNotes = ""
    /\ dependentAppointments = <<>>
    /\ showDependencyWarning = FALSE
    /\ CpeProvisioningFields
    /\ PredictiveMaintenanceFields
    /\ BuildingAssetMapFields
    /\ OrderProgressMobileFields
    /\ ThresholdFields

CpeProvisioningMounted ==
    /\ Mounted("cpeProvisioning")
    /\ recordId = "08p000000000001"
    /\ wired \in WireData
    /\ scanner \in {"available", "unavailable"}
    /\ currentStep = 1
    /\ adaptStatus = ADAPT_STATUS.DISCONNECTED
    /\ provisioningComplete = FALSE
    /\ manualSerialNumber = ""
    /\ manualSerialEntered = FALSE
    /\ isChangingCpe = FALSE
    /\ signalStrength = "null"
    /\ opticalPower = "null"
    /\ connectionSpeed = "null"
    /\ provisioningLog = <<>>
    /\ SaStatusUpdateFields
    /\ PredictiveMaintenanceFields
    /\ BuildingAssetMapFields
    /\ OrderProgressMobileFields
    /\ ThresholdFields

\* the wizard after connectedCallback; the log is left out of the state
InitCpeProvisioning == CpeProvisioningMounted /\ logging = FALSE

\* the wizard after connectedCallback, with its log recorded
InitLog == CpeProvisioningMounted /\ logging = TRUE

InitPredictiveMaintenance ==
    /\ Mounted("predictiveMaintenance")
    /\ recordId = "02i000000000001"
    /\ PredictiveMaintenanceFields
    /\ SaStatusUpdateFields
    /\ CpeProvisioningFields
    /\ BuildingAssetMapFields
    /\ OrderProgressMobileFields
    /\ ThresholdFields

\* the map after connectedCallback, opened from a work order or without a record
InitBuildingAssetMap ==
    /\ Mounted("buildingAssetMap")
    /\ recordId \in {"", "0WO000000000001"}
    /\ gisLayers = GisLayers
    /\ assetsByFloor = loadHavenDataCenterAssets
    /\ selectedAsset = <<>>
    /\ showAssetDetail = FALSE
    /\ isCreatingWorkPlan = FALSE
    /\ SaStatusUpdateFields
    /\ CpeProvisioningFields
    /\ PredictiveMaintenanceFields
    /\ OrderProgressMobileFields
    /\ ThresholdFields

\* the order progress view opened from a work order
InitOrderProgressMobile ==
    /\ Mounted("orderProgressMobile")
    /\ recordId = "0WO000000000001"
    /\ OrderProgressMobileFields
    /\ SaStatusUpdateFields
    /\ CpeProvisioningFields
    /\ PredictiveMaintenanceFields
    /\ BuildingAssetMapFields
    /\ ThresholdFields

ReadingRange == (0 - MaxReading)..MaxReading

InitThresholds ==
    /\ Mounted("thresholds")
    /\ recordId = ""
    /\ reading \in [value : ReadingRange, minThreshold : ReadingRange,
                    maxThreshold : ReadingRange]
    /\ processedAttr = <<>>
    /\ telemetryReading = <<>>
    /\ SaStatusUpdateFields
    /\ CpeProvisioningFields
    /\ PredictiveMaintenanceFields
    /\ BuildingAssetMapFields
    /\ OrderProgressMobileFields

NextSaStatusUpdate ==
    \/ handleStatusUpdate
    \/ \E t \in Pending : updateAppointmentStatus_try(t)
    \/ \E t \in Pending : updateAppointmentStatus_catch(t)
    \/ handleBlockClick
    \/ handleCloseBlockModalClick
    \/ handleBlockReasonChange
    \/ handleBlockNotesChange
    \/ \E t \in Pending : loadDependentAppointments_try(t)
    \/ \E t \in Pending : loadDependentAppointments_catch(t)
    \/ handleConfirmBlock
    \/ \E t \in Pending : handleConfirmBlock_updated(t)
    \/ \E t \in Pending : handleConfirmBlock_updateFailed(t)
    \/ \E t \in Pending : handleConfirmBlock_try(t)
    \/ \E t \in Pending : handleConfirmBlock_catch(t)
    \/ saHandleClose

NextCpeProvisioning ==
    \/ handleManualSerialChange
    \/ handleUseManualSerial
    \/ handleChangeCpe
    \/ handleScanBarcode
    \/ \E t \in Pending : handleScanBarcode_then(t)
    \/ \E t \in Pending : handleScanBarcode_catch(t)
    \/ handleStartProvisioning
    \/ \E t \in Pending : connectToADAPT_resume(t)
    \/ handleStep2Actions
    \/ \E t \in Pending : validateSerial_resume(t)
    \/ \E t \in Pending : handleStep2Actions_resume(t)
    \/ \E t \in Pending : provisionCPE_step(t)
    \/ \E t \in Pending : provisionCPE_resume(t)
    \/ handleRunSignalTest
    \/ \E t \in Pending : runSignalTest_resume(t)
    \/ handleActivate
    \/ \E t \in Pending : activateService_step(t)
    \/ \E t \in Pending : activateService_resume(t)
    \/ cpeHandleClose

NextPredictiveMaintenance ==
    \/ wiredData
    \/ wiredWorkOrders
    \/ handleAddPreventiveWork
    \/ handleWorkOrderSelect
    \/ handleCloseModal
    \/ handleConfirmWorkOrder
    \/ \E t \in Pending : createWorkPlan_try(t)
    \/ \E t \in Pending : createWorkPlan_catch(t)
    \/ handleViewWorkOrder
    \/ handleViewWorkPlan

NextBuildingAssetMap ==
    \/ handleLayerToggle
    \/ handleAssetClick
    \/ handleMapAssetClick
    \/ handleMarkerSelect
    \/ handleCloseDetail
    \/ handleAddInspectionWorkPlan
    \/ \E t \in Pending : handleAddInspectionWorkPlan_try(t)
    \/ \E t \in Pending : handleAddInspectionWorkPlan_catch(t)
    \/ mapHandleClose

NextOrderProgressMobile ==
    \/ handleWorkOrderResult
    \/ handleStageClick
    \/ handleExpandAll
    \/ handleCollapseAll

NextThresholds ==
    \/ processAttributeCall
    \/ telemetryReadingsCall

\* the status workflow widget
SpecSA == InitSaStatusUpdate /\ [][NextSaStatusUpdate]_vars

\* the provisioning wizard
SpecCPE == InitCpeProvisioning /\ [][NextCpeProvisioning]_vars

\* the asset health dashboard
SpecPM == InitPredictiveMaintenance /\ [][NextPredictiveMaintenance]_vars

\* the digital-twin map
SpecMap == InitBuildingAssetMap /\ [][NextBuildingAssetMap]_vars

\* one reading evaluated by the map and by the dashboard
SpecOPM == InitOrderProgressMobile /\ [][NextOrderProgressMobile]_vars

SpecThresholds == InitThresholds /\ [][NextThresholds]_vars

\* the components that make remote calls
InitRemote == InitSaStatusUpdate \/ InitPredictiveMaintenance \/ InitBuildingAssetMap

NextRemote == NextSaStatusUpdate \/ NextPredictiveMaintenance \/ NextBuildingAssetMap

SpecRemote == InitRemote /\ [][NextRemote]_vars

(***************************************************************************)
(* A technician who follows the wizard: each provisioning handler is        *)
(* invoked on the step that shows its button and after the previous         *)
(* operation has finished; the serial may be entered or changed at any      *)
(* time, a barcode is scanned before provisioning starts.                   *)
(***************************************************************************)
\* the map with its floor list: every handler that reads or writes assetsByFloor or
\* selectedAsset; the layer controls, which touch gisLayers alone, are left to SpecMap
NextFloors ==
    \/ handleFloorToggle
    \/ handleAssetClick
    \/ handleMapAssetClick
    \/ handleMarkerSelect
    \/ handleCloseDetail
    \/ handleAddInspectionWorkPlan
    \/ \E t \in Pending : handleAddInspectionWorkPlan_try(t)
    \/ \E t \in Pending : handleAddInspectionWorkPlan_catch(t)
    \/ mapHandleClose

SpecFloors == InitBuildingAssetMap /\ [][NextFloors]_vars

\* updateRecord resolves or rejects
UpdateRecordSettles ==
    \E t \in Pending :
        \/ updateAppointmentStatus_try(t)
        \/ updateAppointmentStatus_catch(t)
        \/ handleConfirmBlock_updated(t)
        \/ handleConfirmBlock_updateFailed(t)

\* triggerRSOForBlockedAppointment resolves or rejects
OptimizerSettles ==
    \E t \in Pending : handleConfirmBlock_try(t) \/ handleConfirmBlock_catch(t)

\* the status widget opened on an appointment that is In Progress, the status from
\* which both completing and blocking are offered, when every pending write and
\* every optimizer call settles
InitSettle == InitSaStatusUpdate /\ statusValue = "In Progress"

SpecSettle ==
    /\ InitSettle
    /\ [][NextSaStatusUpdate]_vars
    /\ WF_vars(UpdateRecordSettles)
    /\ WF_vars(OptimizerSettles)

Idle == tasks = EmptyBag

\* entries that the four steps of one provisioning append to the log
RunEntries == (IF displayWorkOrderNumber # "Loading..." THEN 3 ELSE 2) + 8 + 2 + 4

\* in a recorded behaviour a serial is taken into use only while the log keeps
\* room for a whole provisioning
RunUseManualSerial == LogRoom(1 + RunEntries) /\ handleUseManualSerial

RunScanBarcode == Idle /\ currentStep = 1 /\ LogRoom(1 + RunEntries) /\ handleScanBarcode

RunStartProvisioning == Idle /\ currentStep = 1 /\ handleStartProvisioning

RunStep2Actions == Idle /\ currentStep = 2 /\ handleStep2Actions

RunSignalTest == Idle /\ currentStep = 3 /\ signalStrength = "null" /\ handleRunSignalTest

RunActivate == Idle /\ currentStep = 3 /\ signalStrength # "null" /\ handleActivate

\* the completions of the delays of the provisioning operations
TimerFires ==
    \E t \in Pending :
        \/ connectToADAPT_resume(t)
        \/ validateSerial_resume(t)
        \/ handleStep2Actions_resume(t)
        \/ provisionCPE_step(t)
        \/ provisionCPE_resume(t)
        \/ runSignalTest_resume(t)
        \/ activateService_step(t)
        \/ activateService_resume(t)

NextRun ==
    \/ handleManualSerialChange
    \/ RunUseManualSerial
    \/ handleChangeCpe
    \/ RunScanBarcode
    \/ \E t \in Pending : handleScanBarcode_then(t)
    \/ \E t \in Pending : handleScanBarcode_catch(t)
    \/ RunStartProvisioning
    \/ RunStep2Actions
    \/ RunSignalTest
    \/ RunActivate
    \/ TimerFires
    \/ cpeHandleClose

\* every timer eventually fires, and once provisioning has started the
\* technician goes on with the next step
SpecRun ==
    /\ InitCpeProvisioning
    /\ [][NextRun]_vars
    /\ WF_vars(TimerFires)
    /\ WF_vars(RunStep2Actions)
    /\ WF_vars(RunSignalTest)
    /\ WF_vars(RunActivate)

\* the followed wizard with its log recorded, as long as the log has room
SpecLog == InitLog /\ [][NextRun]_vars

(***************************************************************************)
(* Properties                                                              *)
(***************************************************************************)
\* the transition table of the status workflow
AllowedNextStates ==
    [None |-> {"Scheduled"},
     Scheduled |-> {"Dispatched", "Travel"},
     Dispatched |-> {"Travel", "In Progress"},
     Travel |-> {"In Progress"},
     Completed |-> {},
     Canceled |-> {}]
    @@ ("In Progress" :> {"Completed", "Cannot Complete"})
    @@ ("Cannot Complete" :> {})

OfferedStatuses == {nextStatusOptions[i].value : i \in DOMAIN nextStatusOptions}

TerminalStatuses == {"Completed", "Cannot Complete", "Canceled"}

\* the status writes that are in flight
PendingWrites == {t \in Pending : t.pc = "updateRecord"}

\* C1: for every current status (a missing status reads as None) the values of
\* nextStatusOptions are exactly the allowed next states of the table, without
\* duplicates; a terminal status offers nothing and cannot be updated.
C1_NextStatusOptionsMatchTable ==
    component = "saStatusUpdate" =>
        /\ (statusValue = "" => currentStatus = "None")
        /\ OfferedStatuses = AllowedNextStates[currentStatus]
        /\ Len(nextStatusOptions) = Cardinality(AllowedNextStates[currentStatus])
        /\ canUpdateStatus = (AllowedNextStates[currentStatus] # {})
        /\ (currentStatus \in TerminalStatuses =>
              nextStatusOptions = <<>> /\ ~canUpdateStatus)

\* C1 witness: a status write has moved the appointment to In Progress, which
\* offers Completed and Cannot Complete.
C1_Witness ==
    /\ statusValue = "In Progress"
    /\ io.settled = <<Settled("updateAppointmentStatus", "updateRecord", TRUE)>>
    /\ OfferedStatuses = {"Completed", "Cannot Complete"}

\* C2 as stated: every status write in flight writes an allowed next state of
\* the status that was current when the write was issued.
C2_WritesFollowTable ==
    \A t \in PendingWrites : t.arg \in AllowedNextStates[t.from]

\* C2 amended: a write issued from a next-status button writes an allowed next
\* state of the status current at the click, so none is issued from a terminal
\* status; the blocking flow always writes Cannot Complete, whatever the
\* current status is.
C2_ButtonWritesFollowTable ==
    \A t \in PendingWrites :
        /\ t.op = "updateAppointmentStatus" =>
              t.arg \in AllowedNextStates[t.from] /\ t.from \notin TerminalStatuses
        /\ t.op = "handleConfirmBlock" => t.arg = "Cannot Complete"

\* C2 witness: a block confirmation writes Cannot Complete for an appointment
\* that is Scheduled, next to a button write that follows the table.
C2_Witness ==
    /\ \E t \in PendingWrites : t.op = "handleConfirmBlock" /\ t.from = "Scheduled"
    /\ \E t \in PendingWrites : t.op = "updateAppointmentStatus" /\ t.arg = "Travel"

\* C3 as stated: currentStep changes only by +1.
C3_StepsInOrder == [][currentStep' = currentStep \/ currentStep' = currentStep + 1]_vars

\* the operations of the provisioning wizard that are awaiting a delay
AwaitingOperations ==
    tasks (-) [t \in {u \in Pending : u.op \notin {"connectToADAPT", "handleStep2Actions",
                                                   "runSignalTest", "activateService"}
                                      \/ u.pc = "delay"} |-> CopiesIn(t, tasks)]

\* C4 as stated: at most one provisioning operation is awaiting a delay.
C4_OneOperationAtATime ==
    component = "cpeProvisioning" => BagCardinality(AwaitingOperations) <= 1

\* C5 as stated: at most one status write is in flight.
C5_OneWriteInFlight ==
    component = "saStatusUpdate" =>
        BagCardinality([t \in PendingWrites |-> CopiesIn(t, tasks)]) <= 1

Failed(call) == io.settled # <<>> /\ io.settled[1].call = call /\ ~io.settled[1].ok

Toasts(variant) ==
    {i \in DOMAIN io.events :
        io.events[i].kind = "ShowToastEvent" /\ io.events[i].variant = variant}

AnyToast == {i \in DOMAIN io.events : io.events[i].kind = "ShowToastEvent"}

DashboardRendering ==
    [critical |-> [statusClass |-> "reading-status critical", statusIcon |-> "utility:error",
                   statusLabel |-> "OUT OF THRESHOLD", barClass |-> "reading-bar critical",
                   itemClass |-> "telemetry-item critical"],
     warning |-> [statusClass |-> "reading-status warning", statusIcon |-> "utility:warning",
                  statusLabel |-> "NEAR THRESHOLD", barClass |-> "reading-bar warning",
                  itemClass |-> "telemetry-item warning"],
     normal |-> [statusClass |-> "reading-status normal", statusIcon |-> "utility:success",
                 statusLabel |-> "WITHIN THRESHOLD", barClass |-> "reading-bar normal",
                 itemClass |-> "telemetry-item normal"]]

C9_BlockCompletesWithoutRSO ==
    Failed("triggerRSOForBlockedAppointment") =>
        /\ ~showBlockModal
        /\ blockReason = ""
        /\ blockNotes = ""
        /\ Toasts("error") = {}

TriggersRSO ==
    {i \in DOMAIN io.calls : io.calls[i].call = "triggerRSOForBlockedAppointment"}

\* C10: the optimizer is triggered only in the step in which the write of
\* Cannot Complete of the same confirmation has succeeded, once per
\* confirmation, and not at all when that write fails.
C10_RSOAfterSuccessfulWrite ==
    /\ TriggersRSO # {} =>
          /\ Cardinality(TriggersRSO) = 1
          /\ io.settled = <<Settled("handleConfirmBlock", "updateRecord", TRUE)>>
          /\ statusValue = "Cannot Complete"
    /\ \A t \in Pending :
          /\ t.rso <= 1
          /\ (t.rso = 1) = (t.pc = "triggerRSOForBlockedAppointment")
          /\ t.rso = 1 => t.op = "handleConfirmBlock" /\ t.arg = "Cannot Complete"
    /\ (io.settled # <<>> /\ io.settled[1].call = "updateRecord" /\ ~io.settled[1].ok) =>
          TriggersRSO = {}

\* C10 witness: the write of a block confirmation has succeeded and its
\* optimizer call is pending.
C10_Witness ==
    /\ TriggersRSO # {}
    /\ \E t \in Pending : t.op = "handleConfirmBlock" /\ t.rso = 1
    /\ statusValue = "Cannot Complete"

\* the chain lookups started by handleBlockClick that have not returned
PendingLookups == {t \in Pending : t.op = "loadDependentAppointments"}

\* the step issues the status write of a block confirmation
IssuesBlockWrite ==
    \E t \in BagToSet(tasks') :
        /\ t.op = "handleConfirmBlock"
        /\ t.pc = "updateRecord"
        /\ CopiesIn(t, tasks') > CopiesIn(t, tasks)

\* C11 as stated: the write of Cannot Complete of a block confirmation is never
\* issued while a dependency-chain lookup has not returned.
C11_BlockAfterChainLoaded == [][IssuesBlockWrite => PendingLookups = {}]_vars

\* C12: handleConfirmBlock with an empty blockReason dispatches one error toast,
\* makes no remote call, starts nothing, and leaves isProcessing and every field
\* of the block modal as they were.
C12_EmptyReasonRejected ==
    [][(handleConfirmBlock /\ blockReason = "") =>
          /\ io'.events = <<ShowToastEvent("Error", "error")>>
          /\ io'.calls = <<>>
          /\ UNCHANGED <<tasks, isProcessing, statusValue, showBlockModal, blockReason,
                         blockNotes, dependentAppointments, showDependencyWarning>>]_vars

\* C12 witness: a confirmation without a reason in an open modal that shows a
\* dependency chain and has notes has been rejected.
C12_Witness ==
    /\ blockReason = ""
    /\ io.events = <<ShowToastEvent("Error", "error")>>
    /\ io.settled = <<>>
    /\ io.calls = <<>>
    /\ showBlockModal
    /\ blockNotes # ""
    /\ dependentAppointments # <<>>
    /\ tasks = EmptyBag

\* the order in which the README lists the ADAPT status indicator
AdaptOrder ==
    <<ADAPT_STATUS.DISCONNECTED, ADAPT_STATUS.CONNECTING, ADAPT_STATUS.CONNECTED,
      ADAPT_STATUS.VALIDATING, ADAPT_STATUS.VALIDATED, ADAPT_STATUS.PROVISIONING,
      ADAPT_STATUS.PROVISIONED, ADAPT_STATUS.ACTIVATING, ADAPT_STATUS.ACTIVATED>>

AdaptRank(status) == CHOOSE i \in DOMAIN AdaptOrder : AdaptOrder[i] = status

\* C13 as stated: adaptStatus is always a value of the order and never returns
\* to an earlier value of it.
C13_AdaptStatusForward ==
    [][/\ adaptStatus' \in {AdaptOrder[i] : i \in DOMAIN AdaptOrder}
       /\ AdaptRank(adaptStatus') >= AdaptRank(adaptStatus)]_vars

\* C14 as stated: whenever provisioningComplete is true, the results of a
\* signal test are present.
C14_SignalTestBeforeActivation ==
    provisioningComplete =>
        signalStrength # "null" /\ opticalPower # "null" /\ connectionSpeed # "null"

ProvisioningStarted == \E t \in Pending : t.op = "connectToADAPT"

ProvisioningDone ==
    /\ currentStep = 4
    /\ adaptStatus = ADAPT_STATUS.ACTIVATED
    /\ provisioningComplete
    /\ ~isProcessing
    /\ Idle

\* C15: when the technician follows the wizard and every timer fires, a started
\* provisioning eventually ends at step 4, Activated, complete and not
\* processing, and adaptStatus is never Error.
C15_ProvisioningCompletes ==
    /\ [](adaptStatus # ADAPT_STATUS.ERROR)
    /\ ProvisioningStarted ~> ProvisioningDone

\* C15 witness: a followed run has ended activated, with the signal test made.
C15_Witness ==
    /\ ProvisioningDone
    /\ signalStrength # "null"
    /\ io.events = <<ShowToastEvent("Provisioning Complete", "success")>>

\* the latest step was a successful capture, or a simulated scan
ScanCaptured ==
    \/ io.settled = <<Settled("handleScanBarcode", "beginCapture", TRUE)>>
    \/ io.events = <<ShowToastEvent("Barcode Simulated", "info")>>

ScanFailed == io.settled = <<Settled("handleScanBarcode", "beginCapture", FALSE)>>

\* C16 as stated: after a capture or a simulated scan the captured serial is in
\* use, the CPE display is shown and provisioning can start when nothing is
\* processing; a failed capture leaves the serial as it was and logs an error.
C16_ScannedSerialInUse ==
    [][/\ ScanCaptured' =>
             /\ manualSerialEntered'
             /\ manualSerialNumber' \in ScannedSerials \cup SimulatedSerials
             /\ displaySerialNumber' = manualSerialNumber'
             /\ showCpeDisplay'
             /\ ~isProcessing' => ~disableStartProvisioning'
       /\ ScanFailed' =>
             /\ UNCHANGED <<manualSerialNumber, manualSerialEntered>>
             /\ logging =>
                   /\ Len(provisioningLog') = Len(provisioningLog) + 1
                   /\ provisioningLog'[Len(provisioningLog')].type = "error"]_vars

\* the first part of the message of every entry of the log
LogHeads == [i \in DOMAIN provisioningLog |-> provisioningLog[i].message[1]]

\* consecutive addLog calls of one operation, by the first part of the message
ProgramOrder ==
    {<<"Connecting to ADAPT", "ADAPT connection established">>,
     <<"ADAPT connection established", "WO: ">>,
     <<"Validating: ", "Serial validated">>,
     <<"Serial validated", "MAC: ">>,
     <<"MAC: ", "Provisioning CPE...">>,
     <<"Provisioning CPE...", "Creating service profile">>,
     <<"Creating service profile", "Configuring VLAN">>,
     <<"Configuring VLAN", "Setting QoS parameters">>,
     <<"Setting QoS parameters", "CPE provisioned">>,
     <<"Running signal test...", "Signal: ">>,
     <<"Activating service...", "Enabling data path">>,
     <<"Enabling data path", "Verifying connectivity">>,
     <<"Verifying connectivity", "SERVICE ACTIVATED">>}

Occurrences(head, upto) == Cardinality({i \in 1..upto : LogHeads[i] = head})

InProgramOrder ==
    \A pair \in ProgramOrder : \A j \in DOMAIN provisioningLog :
        Occurrences(pair[2], j) <= Occurrences(pair[1], j)

\* what one addLog call makes of the log
AddsOneEntryAtTheEnd ==
    \A type \in {"info", "success", "error"} :
        LET log == addLog(provisioningLog, <<"Scan error: ", "message">>, type)
        IN /\ Len(log) = Len(provisioningLog) + 1
           /\ SubSeq(log, 1, Len(provisioningLog)) = provisioningLog
           /\ log[Len(log)] = LogEntry(<<"Scan error: ", "message">>, type)

\* C17: the log only grows at its end: every step keeps the entries it finds,
\* in place and unchanged, every addLog call adds one entry after them, and the
\* entries of one operation appear in program order.
C17_LogAppendOnly ==
    /\ [](AddsOneEntryAtTheEnd /\ InProgramOrder)
    /\ [][/\ Len(provisioningLog') >= Len(provisioningLog)
          /\ SubSeq(provisioningLog', 1, Len(provisioningLog)) = provisioningLog]_vars

\* C17 witness: a whole provisioning has been logged after a serial was taken
\* into use.
C17_Witness ==
    /\ logging
    /\ provisioningComplete
    /\ Len(provisioningLog) >= 17
    /\ LogHeads[1] \in {"CPE set: ", "Simulated scan: ", "Barcode scanned: "}
    /\ LogHeads[Len(provisioningLog)] = "SERVICE ACTIVATED"

\* the request for a preventive work plan that the latest step has made
CreationRequested(workOrderId) ==
    io.calls = <<[call |-> "createPreventiveWorkPlan", workOrderId |-> workOrderId]>>

\* C18: handleAddPreventiveWork takes one of three paths: with an upcoming work
\* order in the prediction data it requests the work plan for that work order
\* and shows no modal; otherwise with location work orders it shows the modal
\* and requests nothing; otherwise it dispatches a warning and changes nothing.
\* From the modal a work plan is requested only by a confirmation, for the
\* selected work order.
C18_AddPreventiveWorkPaths ==
    [][/\ handleAddPreventiveWork =>
             IF data.upcomingWorkOrderId # ""
             THEN /\ CreationRequested(data.upcomingWorkOrderId)'
                  /\ selectedWorkOrderId' = data.upcomingWorkOrderId
                  /\ ~showWorkOrderModal'
                  /\ isCreating'
                  /\ io'.events = <<>>
             ELSE IF Len(workOrders) > 0
             THEN /\ showWorkOrderModal'
                  /\ io' = NoIO
                  /\ UNCHANGED <<tasks, isCreating, selectedWorkOrderId, workPlanCreated,
                                 createdWorkPlanId, data, workOrders>>
             ELSE /\ io'.events = <<ShowToastEvent("No Work Orders Available", "warning")>>
                  /\ io'.calls = <<>>
                  /\ UNCHANGED <<tasks, pmFields, workPlanCreated>>
       /\ (io'.calls # <<>> /\ io'.calls[1].call = "createPreventiveWorkPlan") =>
             \/ /\ handleAddPreventiveWork
                /\ data.upcomingWorkOrderId # ""
             \/ /\ handleConfirmWorkOrder
                /\ ~Falsy(selectedWorkOrderId)
                /\ CreationRequested(selectedWorkOrderId)']_vars

\* C18 witness: with location work orders loaded and an upcoming work order in
\* the prediction data, the work plan has been requested for the upcoming one
\* and the modal is not shown.
C18_Witness ==
    /\ component = "predictiveMaintenance"
    /\ Len(workOrders) > 0
    /\ data.upcomingWorkOrderId # ""
    /\ CreationRequested(data.upcomingWorkOrderId)
    /\ selectedWorkOrderId = data.upcomingWorkOrderId
    /\ ~showWorkOrderModal

OutOfRange(attr) == attr.value < attr.minThreshold \/ attr.value > attr.maxThreshold

\* the attributes of an asset that are out of range, as the call passes them
OutOfRangeAttributes(asset) ==
    LET selected == SelectSeq(asset.attributes, OutOfRange)
    IN [i \in DOMAIN selected |->
           [name |-> selected[i].name, attrValue |-> selected[i].value,
            minThreshold |-> selected[i].minThreshold,
            maxThreshold |-> selected[i].maxThreshold,
            category |-> selected[i].category]]

InspectionRequested ==
    io.calls # <<>> /\ io.calls[1].call = "createInspectionWorkPlan"

\* C19: createInspectionWorkPlan is called only for a selected asset with an
\* attribute of status warning or critical, with exactly the attributes of
\* that asset that are below their minimum or above their maximum; for an
\* asset without such an attribute the handler calls nothing and changes
\* nothing.
C19_InspectionOnlyForWarnings ==
    [][/\ InspectionRequested' =>
             /\ selectedAsset # <<>>
             /\ \E i \in DOMAIN selectedAsset[1].attributes :
                   selectedAsset[1].attributes[i].status \in {"warning", "critical"}
             /\ io'.calls[1].assetName = selectedAsset[1].name
             /\ io'.calls[1].warningAttributes = OutOfRangeAttributes(selectedAsset[1])
             /\ io'.calls[1].warningAttributes # <<>>
       /\ (/\ handleAddInspectionWorkPlan
           /\ selectedAsset # <<>>
           /\ OutOfRangeAttributes(selectedAsset[1]) = <<>>) =>
             /\ io' = NoIO
             /\ UNCHANGED <<tasks, mapFields, workPlanCreated, recordId>>]_vars

\* C19 witness: an inspection work plan has been requested for an asset that
\* has attributes in range and attributes out of range.
C19_Witness ==
    /\ InspectionRequested
    /\ selectedAsset # <<>>
    /\ Len(io.calls[1].warningAttributes) >= 1
    /\ Len(io.calls[1].warningAttributes) < Len(selectedAsset[1].attributes)

Visible(layerId) == \E i \in DOMAIN gisLayers : gisLayers[i].id = layerId /\ gisLayers[i].visible

Count(flag, n) == IF flag THEN n ELSE 0

MarkerValuesShown == {mapMarkers[i].value : i \in DOMAIN mapMarkers}

\* the elements of mapMarkers, per layer
LayerElements ==
    [backbone |-> {"backbone-main", "backbone-ns"},
     distribution |-> {"dist-nw", "dist-ne", "dist-s"},
     zones |-> {"zone-main", "zone-generator", "zone-cooling", "zone-parking"},
     assets |-> {x.id : x \in AllAssets}]

\* C20: a layer toggle changes the visible flag of the named layer and nothing
\* else, and for every combination of the flags mapMarkers holds the
\* data-center marker and exactly the elements of the visible layers:
\* 1 + 2b + 3d + 4z + 15a markers.
C20_LayersToggleIndependently ==
    /\ [](component = "buildingAssetMap" =>
            /\ Len(mapMarkers) = 1 + Count(Visible("backbone"), 2)
                                   + Count(Visible("distribution"), 3)
                                   + Count(Visible("zones"), 4)
                                   + Count(Visible("assets"), 15)
            /\ Cardinality(MarkerValuesShown) = Len(mapMarkers)
            /\ MarkerValuesShown =
                  {"data-center"} \cup
                  UNION {LayerElements[id] : id \in {l \in DOMAIN LayerElements : Visible(l)}})
    /\ [][gisLayers' # gisLayers =>
             /\ DOMAIN gisLayers' = DOMAIN gisLayers
             /\ \E i \in DOMAIN gisLayers :
                   /\ gisLayers'[i] = [gisLayers[i] EXCEPT !.visible = ~@]
                   /\ \A j \in DOMAIN gisLayers \ {i} : gisLayers'[j] = gisLayers[j]
             /\ UNCHANGED <<component, recordId, tasks, workPlanCreated, assetsByFloor,
                            selectedAsset, showAssetDetail, isCreatingWorkPlan>>]_vars

\* C20 witness: with an asset selected, the backbone and the zones have been
\* switched off; the map shows 1 + 3 + 15 elements.
C20_Witness ==
    /\ ~Visible("backbone")
    /\ Visible("distribution")
    /\ ~Visible("zones")
    /\ Visible("assets")
    /\ selectedAsset # <<>>
    /\ Len(mapMarkers) = 19

(***************************************************************************)
(* Asset status and threshold evaluation in the map's data set             *)
(***************************************************************************)
AssetPlaces ==
    UNION {{<<f, a>> : a \in DOMAIN assetsByFloor[f].assets} : f \in DOMAIN assetsByFloor}

AssetAt(place) == assetsByFloor[place[1]].assets[place[2]]

\* status agrees with the thresholds of the attributes, and with hasWarnings
StatusAgrees(asset) ==
    LET outOfRange == \E i \in DOMAIN asset.attributes : OutOfRange(asset.attributes[i])
        classified == \E i \in DOMAIN asset.attributes :
                          asset.attributes[i].status \in {"warning", "critical"}
    IN /\ asset.status = (IF outOfRange THEN "Warning" ELSE "Active")
       /\ asset.hasWarnings <=> classified
       /\ classified <=> outOfRange

\* C21: each of the 15 assets of the map has status Warning exactly when one of its
\* attributes is classified warning or critical (hasWarnings), and Active otherwise;
\* no handler changes the status or the attributes of an asset
C21_StatusAgreesWithThresholds ==
    /\ [](component = "buildingAssetMap" =>
            /\ Cardinality(AssetPlaces) = 15
            /\ \A place \in AssetPlaces : StatusAgrees(AssetAt(place)))
    /\ [][/\ DOMAIN assetsByFloor' = DOMAIN assetsByFloor
          /\ \A f \in DOMAIN assetsByFloor :
                /\ DOMAIN assetsByFloor'[f].assets = DOMAIN assetsByFloor[f].assets
                /\ \A a \in DOMAIN assetsByFloor[f].assets :
                      /\ assetsByFloor'[f].assets[a].status = assetsByFloor[f].assets[a].status
                      /\ assetsByFloor'[f].assets[a].attributes
                            = assetsByFloor[f].assets[a].attributes]_vars

\* a floor was collapsed while an asset with status Warning is shown
C21_Witness ==
    /\ component = "buildingAssetMap"
    /\ ~assetsByFloor[1].isExpanded
    /\ assetsByFloor[4].isExpanded
    /\ selectedAsset # <<>>
    /\ selectedAsset[1].status = "Warning"
    /\ selectedAsset[1].hasWarnings

(***************************************************************************)
(* The final state of the provisioning wizard                              *)
(***************************************************************************)
\* C22: provisioningComplete is true only in the final state of the wizard: it implies
\* currentStep = 4 and adaptStatus = Activated, also after start provisioning or the
\* step-2 actions are invoked again once the activation has finished
C22_CompleteOnlyInFinalState ==
    (component = "cpeProvisioning" /\ provisioningComplete)
        => (currentStep = 4 /\ adaptStatus = ADAPT_STATUS.ACTIVATED)

(***************************************************************************)
(* isProcessing while a provisioning operation is under way                *)
(***************************************************************************)
\* the invocations of the four provisioning handlers that have not finished
OutstandingOperations ==
    {t \in Pending : t.op \in {"connectToADAPT", "handleStep2Actions", "runSignalTest",
                               "activateService"}}

\* C23: isProcessing is true from the moment a provisioning handler is invoked until
\* its last delay has completed, the pause inside handleStep2Actions included
C23_ProcessingWhileOutstanding ==
    (component = "cpeProvisioning" /\ OutstandingOperations # {}) => isProcessing

(***************************************************************************)
(* The manual serial number                                                *)
(***************************************************************************)
\* C24: once a manual serial has been accepted, manualSerialNumber is a non-blank string
C24_AcceptedSerialNotBlank ==
    (component = "cpeProvisioning" /\ manualSerialEntered) => trim(manualSerialNumber) # ""

(***************************************************************************)
(* Dependency data and the block modal                                     *)
(***************************************************************************)
\* C25: the dependency warning and the dependent appointments are present only while
\* the block modal is open, also when the chain lookup returns after the modal closed
C25_DependencyDataOnlyInModal ==
    (component = "saStatusUpdate" /\ (showDependencyWarning \/ dependentAppointments # <<>>))
        => showBlockModal

(***************************************************************************)
(* isProcessing and the modal after a write has settled                    *)
(***************************************************************************)
\* the invocations of updateAppointmentStatus and handleConfirmBlock awaiting a remote call
UnsettledOperations ==
    {t \in Pending : t.op \in {"updateAppointmentStatus", "handleConfirmBlock"}}

\* the optimizer call of a block has resolved
BlockSucceeded == \E t \in Pending : handleConfirmBlock_try(t)

\* updateRecord or the optimizer call of a block has rejected
BlockFailed ==
    \E t \in Pending : handleConfirmBlock_updateFailed(t) \/ handleConfirmBlock_catch(t)

CreationRejected == \E t \in Pending : createWorkPlan_catch(t)

CreationResolved == \E t \in Pending : createWorkPlan_try(t)

\* C27: a creation that fails leaves workPlanCreated and createdWorkPlanId as they
\* are, requests no refresh, dispatches an error notification and ends with isCreating
\* false; workPlanCreated becomes true only when a creation call succeeds and is never
\* reset, so showAddWorkButton stays false from then on
C27_FailedCreationLeavesResult ==
    /\ [][CreationRejected =>
             /\ UNCHANGED <<workPlanCreated, createdWorkPlanId>>
             /\ io'.calls = <<>>
             /\ io'.events = <<ShowToastEvent("Error", "error")>>
             /\ ~isCreating']_vars
    /\ [][(~workPlanCreated /\ workPlanCreated') => CreationResolved]_vars
    /\ [][workPlanCreated => workPlanCreated']_vars
    /\ []((component = "predictiveMaintenance" /\ workPlanCreated) => ~showAddWorkButton)

\* a creation has just failed on an asset at risk that has no work plan
C27_Witness ==
    /\ component = "predictiveMaintenance"
    /\ io.settled = <<Settled("createWorkPlan", "createPreventiveWorkPlan", FALSE)>>
    /\ ~workPlanCreated
    /\ createdWorkPlanId = "undefined"
    /\ ~isCreating
    /\ showAddWorkButton

\* the latest step has called createPreventiveWorkPlan
CreationCalled == io.calls # <<>> /\ io.calls[1].call = "createPreventiveWorkPlan"

\* C28: createPreventiveWorkPlan is never called while an earlier call is pending
\* (isCreating) nor after one has succeeded (workPlanCreated)
C28_OneWorkPlanPerAsset ==
    [][(component = "predictiveMaintenance" /\ CreationCalled')
          => (~isCreating /\ ~workPlanCreated)]_vars

(***************************************************************************)
(* workPlanCreated and the asset shown in the map's detail view            *)
(***************************************************************************)
\* the step shows an asset that the detail view was not showing before it
AnotherAssetSelected ==
    /\ component = "buildingAssetMap"
    /\ selectedAsset' # <<>>
    /\ (selectedAsset = <<>> \/ selectedAsset[1].id # selectedAsset'[1].id)

\* C29: workPlanCreated refers to the asset shown: selecting another asset does not
\* leave workPlanCreated true for the newly selected asset
C29_WorkPlanCreatedForShownAsset ==
    [][AnotherAssetSelected => ~workPlanCreated']_vars

(***************************************************************************)
(* The expanded stages of the order progress view                          *)
(***************************************************************************)
\* the status the journey gives a stage: 1-4 completed, 5 current, 6-7 pending
JourneyStatus(stage) ==
    IF stage \in 1..4 THEN "completed" ELSE IF stage = 5 THEN "current" ELSE "pending"

\* C30: handleStageClick toggles the clicked stage and leaves every other stage as it
\* is, handleExpandAll yields {1..7}, handleCollapseAll yields {5}, nothing else
\* changes the set, and the status of a stage does not depend on the set
C30_ExpandedStagesOperations ==
    /\ [][handleStageClick =>
             \E stageNum \in 1..7 :
                /\ stageNum \in expandedStages' <=> stageNum \notin expandedStages
                /\ expandedStages' \ {stageNum} = expandedStages \ {stageNum}]_vars
    /\ [][handleExpandAll => expandedStages' = 1..7]_vars
    /\ [][handleCollapseAll => expandedStages' = {5}]_vars
    /\ [][expandedStages' # expandedStages =>
             (handleStageClick \/ handleExpandAll \/ handleCollapseAll)]_vars
    /\ [](component = "orderProgressMobile" =>
             /\ Len(stages) = 7
             /\ \A i \in 1..7 :
                   /\ stages[i].stage = i
                   /\ stages[i].status = JourneyStatus(i)
                   /\ stages[i].isExpanded <=> i \in expandedStages)

\* every stage but the current one is expanded, after the work order was loaded
C30_Witness ==
    /\ component = "orderProgressMobile"
    /\ expandedStages = {1, 2, 3, 4, 6, 7}
    /\ workOrderData = "node"
    /\ ~isLoading

====
